---- MODULE Spec2Model ----
(***************************************************************************)
(* Projekt Prometheus, "Die Schmiede": the job processing pipeline.        *)
(*                                                                         *)
(* The model covers the three runners of the repository:                   *)
(*   "handler"  the single-job function  (src/unnamed/part_000, 28-113),   *)
(*   "batch"    runForge without alerts  (src/api/batch.ts, 127-213),      *)
(*   "notify"   runForge with alerts     (src/unnamed/part_000, 483-590).  *)
(* A runner is a sequential async function; every await is a point where   *)
(* another invocation may run, so every action below is the code between   *)
(* two awaits, together with the effect of the awaited call.               *)
(*                                                                         *)
(* The job store is the supabase client: a call resolves to {data, error}  *)
(* and the code reads `error` only after the select; writes are applied    *)
(* row by row, unconditionally, by id.                                     *)
(***************************************************************************)
EXTENDS Integers, Sequences, FiniteSets, TLC

(***************************************************************************)
(* Bounds of the model.                                                    *)
(***************************************************************************)
\* jobs in the store when two invocations overlap (Spec)
NumJobs == 1
\* jobs in the store for a single invocation (SpecSeq)
NumJobsSeq == 2
\* jobs in the store for the five-row queue scenario (SpecQueue)
NumJobsQueue == 5
\* how often the clock advances by TickMs
MaxTicks == 2
\* chunks of the longest document text
MaxChunks == 2

(***************************************************************************)
(* Program constants.                                                      *)
(***************************************************************************)
MAX_EXECUTION_TIME_MS == 270000
CHUNK_SIZE == 10000

\* the clock advances in steps of half the budget
TickMs == MAX_EXECUTION_TIME_MS \div 2

Runners == {"r1", "r2"}
Variants == {"handler", "batch", "notify"}
\* let item; (no row selected yet)
NoItem == 0

\* pdf_storage_path: null
Null == "null"

VARIABLES
    jobs,         \* table legislations: id -> [status, pdf_storage_path]
    results,      \* table analysis_results: the rows in insertion order
    notified,     \* calls of sendNewAnalysisAlert, per job id
    now,          \* Date.now()
    variant,      \* which runner an invocation executes
    pc,           \* where the invocation is suspended
    startTime,    \* const startTime = Date.now()
    item,         \* let item: the job row selected in this iteration
    text,         \* length of the extracted document text
    scoutReports, \* the reports runScoutAnalysis returned (chunk numbers)
    analysisJson, \* const analysisJson = JSON.parse(finalJsonString)
    err,          \* error.message of the exception being handled
    counters,     \* jobsProcessed, jobsIgnored, jobsFailed, emailsSent
    response,     \* HTTP status the invocation answered with
    selected,     \* history: the jobs this invocation selected
    storeOrder,   \* the order in which the store returns rows of a select
    bk,           \* one call of exponentialBackoff(fn, retries, delay)
    fn,           \* the function handed to it: how it behaves
    calls,        \* the model calls an invocation has issued and not dropped
    repairs,      \* history: the jobs whose repair call settled, and how
    config,       \* the environment variables that are set, per invocation
    ingested,     \* history: the invocation has run runSentinel
    faults,       \* history: the store calls that resolved to an error
    seg,          \* one call of the segmenter: its input and its matches
    legislations, \* table legislations as runSentinel sees it: link by link
    sentinel      \* where each run of runSentinel stands

storeVars == <<jobs, results, notified, storeOrder>>
localVars == <<item, text, scoutReports, analysisJson, err>>
\* what no step of the pipeline writes, but the ones that say so
sentinelVars == <<legislations, sentinel>>
histVars == <<config, ingested, faults, seg, sentinelVars>>
callVars == <<bk, fn, calls, repairs, histVars>>
pipeVars == <<jobs, results, notified, now, variant, pc, startTime, item, text,
              scoutReports, analysisJson, err, counters, response, selected,
              storeOrder>>
vars == <<jobs, results, notified, now, variant, pc, startTime, item, text,
          scoutReports, analysisJson, err, counters, response, selected,
          storeOrder, bk, fn, calls, repairs, config, ingested, faults, seg,
          legislations, sentinel>>

Jobs == DOMAIN jobs

(***************************************************************************)
(* Values.                                                                 *)
(***************************************************************************)
\* confidence_score_percent and time_horizon_months of a parsed object
\* (a sequence of length 0 stands for a field the object does not hold)
Confs == {<<>>, <<-1>>, <<0>>, <<85>>}
Horizons == {<<>>, <<18>>}
\* the object {confidence_score_percent: c, time_horizon_months: h}
MkObject(c, h) ==
    [f \in (IF c = <<>> THEN {} ELSE {"confidence_score_percent"}) \cup
           (IF h = <<>> THEN {} ELSE {"time_horizon_months"}) |->
        IF f = "confidence_score_percent" THEN c[1] ELSE h[1]]
JsonObjects == {MkObject(c, h) : c \in Confs, h \in Horizons}
\* the JSON text `null` parsed
JsonNull == [isNull |-> TRUE]
\* text that is no JSON
Broken == [isBroken |-> TRUE]
\* analysisJson before it is assigned
NoJson == [isUnset |-> TRUE]
NoErr == "noerr"
\* obj.f is not undefined
Has(obj, f) == f \in DOMAIN obj

\* A text returned by the model: a body, wrapped or not in a markdown fence.
\*   "none"     no fence
\*   "json_nl"  ```json\n ... \n```
\*   "json_sp"  ```json ... ``` with other whitespace than one newline
Fences == {"none", "json_nl", "json_sp"}
ModelTexts == [fence : Fences, body : JsonObjects \cup {JsonNull, Broken}]

\* error.message of the exceptions the pipeline raises
NoPdfLink == "Konnte keinen _EN.pdf Link auf der Seite finden"
AxiosError == "AxiosError"
ModelError == "ModelError"
SyntaxError == "SyntaxError"
FixFailed == "Failed to generate or fix JSON response from General model."
TypeError == "TypeError"
AcquisitionErrors == {NoPdfLink, AxiosError}

\* the document link found on the page of job j
PdfUrl(j) == "pdfUrl"

\* lengths of the document texts: zero to MaxChunks chunks, the last one short
TextLens == {0} \cup {(k - 1) * CHUNK_SIZE + 1 : k \in 1..MaxChunks}

ZeroCounters == [processed |-> 0, ignored |-> 0, failed |-> 0, emailsSent |-> 0]

(***************************************************************************)
(* Pure helpers of the pipeline.                                           *)
(***************************************************************************)
\* fullText.match(/[\s\S]{1,10000}/g) || [] : the number of chunks
NumChunks(len) == (len + CHUNK_SIZE - 1) \div CHUNK_SIZE

\* .replace(/^```json\n/, "").replace(/\n```$/, "")
StripFence(t) == IF t.fence = "json_nl" THEN [t EXCEPT !.fence = "none"] ELSE t

\* .replace(/^```json\s*/, "").replace(/\s*```$/, "")
StripFenceWs(t) ==
    IF t.fence \in {"json_nl", "json_sp"} THEN [t EXCEPT !.fence = "none"] ELSE t

\* JSON.parse(t) returns; otherwise it throws a SyntaxError
Parses(t) == t.fence = "none" /\ t.body # Broken
JSONparse(t) == t.body

\* (a fast-path verdict that carries a signal)
CanonicalTextSignal == [fence |-> "none", body |-> MkObject(<<85>>, <<0>>)]
\* JSON.stringify of the no-signal verdict of runGeneralAnalysis
CanonicalText == [fence |-> "none", body |-> MkObject(<<0>>, <<0>>)]

\* (a fallback text that is no JSON)
EmptyObjectTextBroken == [fence |-> "none", body |-> Broken]
\* the text "{}"
EmptyObjectText == [fence |-> "none", body |-> MkObject(<<>>, <<>>)]

\* obj.f || 0
OrZero(obj, f) == IF Has(obj, f) THEN obj[f] ELSE 0

\* !analysisJson.confidence_score_percent || analysisJson.confidence_score_percent <= 0
RejectedLoose(v) ==
    ~Has(v, "confidence_score_percent") \/ v.confidence_score_percent < 0
Rejected(v) ==
    \/ ~Has(v, "confidence_score_percent")
    \/ v.confidence_score_percent = 0
    \/ v.confidence_score_percent <= 0

\* the row handed to analysis_results.insert
ResultRowSwapped(id, v) ==
    [legislation_id |-> id,
     confidence_score |-> OrZero(v, "time_horizon_months"),
     time_horizon_months |-> OrZero(v, "confidence_score_percent")]
ResultRow(id, v) ==
    [legislation_id |-> id,
     confidence_score |-> OrZero(v, "confidence_score_percent"),
     time_horizon_months |-> OrZero(v, "time_horizon_months")]

\* .update(fields).eq("id", id)
UpdateStatus(id, s) == [jobs EXCEPT ![id].status = s]
\* (an update of the document reference that also resets the status)
UpdatePdfAndStatus(id, p) ==
    [jobs EXCEPT ![id] = [status |-> "pending", pdf_storage_path |-> p]]
UpdatePdf(id, p) == [jobs EXCEPT ![id].pdf_storage_path = p]

\* .update({ status: "failed", pdf_storage_path: error.message })
FailedRowKeepPdf(row, msg) == [row EXCEPT !.status = "failed"]
FailedRow(row, msg) == [status |-> "failed", pdf_storage_path |-> msg]

\* .eq("status", "pending")
PendingJobs == {j \in Jobs : jobs[j].status = "pending"}

\* the rows .limit(1).single() may return to runner r: the select names no
\* order, so any pending row may come back; "oldest" is the store answering
\* in insertion order
Selectable(r) ==
    IF storeOrder = "oldest"
    THEN {j \in PendingJobs : \A k \in PendingJobs : j <= k}
    ELSE PendingJobs

\* Date.now() - startTime < MAX_EXECUTION_TIME_MS
BudgetLeftInclusive(r) == now - startTime[r] <= MAX_EXECUTION_TIME_MS
BudgetLeft(r) == now - startTime[r] < MAX_EXECUTION_TIME_MS

IsBatch(r) == variant[r] \in {"batch", "notify"}

\* process.env: the settings the functions read
Settings ==
    {"SUPABASE_URL", "SUPABASE_SERVICE_KEY", "GEMINI_API_KEY",
     "RESEND_API_KEY", "ALERT_EMAIL_ADDRESS"}
\* if (!supabaseUrl || !supabaseServiceKey || !geminiApiKey [ ||
\* !resendApiKey || !alertEmailAddress ])
RequiredStoreOnly(v) == {"SUPABASE_URL", "SUPABASE_SERVICE_KEY"}
Required(v) ==
    IF v = "notify" THEN Settings
    ELSE {"SUPABASE_URL", "SUPABASE_SERVICE_KEY", "GEMINI_API_KEY"}

(***************************************************************************)
(* Control flow of one invocation.                                         *)
(***************************************************************************)
\* where the invocation goes on after the iteration for one job has ended
AfterJob(r) == IF IsBatch(r) THEN "loop" ELSE "done"

\* the catch block: runForge stays in the while loop, the handler answers
AfterCatchBreak(r) == "done"
AfterCatch(r) == IF IsBatch(r) THEN "loop" ELSE "done"

\* if (selectError || !foundItem): break (runForge), return (handler)
AfterEmptyQueueContinue(r) == IF IsBatch(r) THEN "loop" ELSE "done"
AfterEmptyQueue(r) == "done"

\* the outcome of the code between two awaits
Continue(p) == [pc |-> p, analysisJson |-> NoJson, err |-> NoErr]
Thrown(msg) == [pc |-> "catch", analysisJson |-> NoJson, err |-> msg]

\* after const analysisJson = JSON.parse(finalJsonString): the filter block
FilterVerdict(v) ==
    IF v = JsonNull THEN Thrown(TypeError)
    ELSE IF Rejected(v) THEN [pc |-> "ignore", analysisJson |-> v, err |-> NoErr]
    ELSE [pc |-> "insert", analysisJson |-> v, err |-> NoErr]

\* runForge and the handler receive finalJsonString from runGeneralAnalysis
Received(jsonText) ==
    IF Parses(jsonText) THEN FilterVerdict(JSONparse(jsonText))
    ELSE Thrown(SyntaxError)

\* (a synthesis stage that has every text repaired)
GeneralReturnedRepairsAll(t) == Continue("repair")
\* runGeneralAnalysis after the model returned text t
GeneralReturned(t) ==
    IF Parses(StripFence(t)) THEN Received(StripFence(t)) ELSE Continue("repair")

\* fixBrokenJson returned text t (already stripped) to runGeneralAnalysis
RepairReturnedLenient(v, t) ==
    IF ~Parses(t) THEN Received(EmptyObjectText) ELSE Received(t)
RepairReturned(v, t) ==
    IF v = "notify" /\ ~Parses(t) THEN Thrown(FixFailed) ELSE Received(t)

\* fixBrokenJson: the repair call returned text t
FixBrokenJsonKeepsFence(v, t) == t
FixBrokenJson(v, t) == IF v = "notify" THEN StripFenceWs(t) ELSE StripFence(t)

\* jobsFailed++ in the catch block
CountFailed(r, o) ==
    IF o.pc = "catch" /\ IsBatch(r) THEN counters[r].failed + 1
    ELSE counters[r].failed

\* jobsIgnored++ before continue
CountIgnoredAsProcessed(r) ==
    IF IsBatch(r) THEN [counters[r] EXCEPT !.processed = @ + 1] ELSE counters[r]
CountIgnored(r) ==
    IF IsBatch(r) THEN [counters[r] EXCEPT !.ignored = @ + 1] ELSE counters[r]

\* jobsProcessed++
CountProcessedNever(r) == counters[r]
CountProcessed(r) ==
    IF IsBatch(r) THEN [counters[r] EXCEPT !.processed = @ + 1] ELSE counters[r]

\* the invocation goes on with outcome o
Resume(r, o) ==
    /\ pc' = [pc EXCEPT ![r] = o.pc]
    /\ analysisJson' = [analysisJson EXCEPT ![r] = o.analysisJson]
    /\ err' = [err EXCEPT ![r] = o.err]
    /\ counters' = [counters EXCEPT ![r].failed = CountFailed(r, o)]

\* (an invocation that answers 500 once a job has failed)
EndJobStrict(r, p) ==
    /\ pc' = [pc EXCEPT ![r] = p]
    /\ item' = [item EXCEPT ![r] = NoItem]
    /\ text' = [text EXCEPT ![r] = 0]
    /\ scoutReports' = [scoutReports EXCEPT ![r] = <<>>]
    /\ analysisJson' = [analysisJson EXCEPT ![r] = NoJson]
    /\ err' = [err EXCEPT ![r] = NoErr]
    /\ response' = [response EXCEPT ![r] =
                      IF p # "done" THEN @
                      ELSE IF counters[r].failed > 0 THEN "500" ELSE "200"]

\* the iteration for one job ends: its locals go out of scope
EndJob(r, p) ==
    /\ pc' = [pc EXCEPT ![r] = p]
    /\ item' = [item EXCEPT ![r] = NoItem]
    /\ text' = [text EXCEPT ![r] = 0]
    /\ scoutReports' = [scoutReports EXCEPT ![r] = <<>>]
    /\ analysisJson' = [analysisJson EXCEPT ![r] = NoJson]
    /\ err' = [err EXCEPT ![r] = NoErr]
    /\ response' = [response EXCEPT ![r] =
                      IF p # "done" THEN @
                      ELSE IF pc[r] = "catch" /\ ~IsBatch(r) THEN "500" ELSE "200"]

(***************************************************************************)
(* The actions: one per await of the runners.                              *)
(***************************************************************************)
\* handler: the settings are present; const startTime = Date.now();
\* runSentinel has run and runForge(startTime) is entered.
\* The single-job handler issues its select at once.
Start(r) ==
    /\ pc[r] = "idle"
    /\ Required(variant[r]) \subseteq config[r]
    /\ startTime' = [startTime EXCEPT ![r] = now]
    /\ ingested' = [ingested EXCEPT ![r] = IsBatch(r)]
    /\ pc' = [pc EXCEPT ![r] = IF IsBatch(r) THEN "loop" ELSE "select"]
    /\ UNCHANGED <<bk, fn, calls, repairs, config, faults, seg,
                   sentinelVars>>
    /\ UNCHANGED <<storeVars, localVars, now, variant, counters, response, selected>>

\* while (Date.now() - startTime < MAX_EXECUTION_TIME_MS): the select is
\* issued, or runForge returns its counters and the handler answers 200
LoopCheck(r) ==
    /\ pc[r] = "loop"
    /\ IF BudgetLeft(r)
       THEN /\ pc' = [pc EXCEPT ![r] = "select"]
            /\ UNCHANGED <<localVars, response>>
       ELSE EndJob(r, "done")
    /\ UNCHANGED callVars
    /\ UNCHANGED <<storeVars, now, variant, startTime, counters, selected>>

\* (a claim that selects and writes processing in one step)
SelectJobAtomic(r) ==
    /\ pc[r] = "select"
    /\ \E j \in Selectable(r) :
          /\ item' = [item EXCEPT ![r] = j]
          /\ selected' = [selected EXCEPT ![r] = @ \cup {j}]
          /\ jobs' = UpdateStatus(j, "processing")
    /\ pc' = [pc EXCEPT ![r] = "mark"]
    /\ UNCHANGED callVars
    /\ UNCHANGED <<results, notified, storeOrder, now, variant, startTime, text,
                   scoutReports, analysisJson, err, counters, response>>

\* .select("*").eq("status", "pending").limit(1).single() found a row:
\* item = foundItem, and the update to processing is issued
SelectJob(r) ==
    /\ pc[r] = "select"
    /\ \E j \in Selectable(r) :
          /\ item' = [item EXCEPT ![r] = j]
          /\ selected' = [selected EXCEPT ![r] = @ \cup {j}]
    /\ pc' = [pc EXCEPT ![r] = "mark"]
    /\ UNCHANGED callVars
    /\ UNCHANGED <<storeVars, now, variant, startTime, text, scoutReports,
                   analysisJson, err, counters, response>>

\* the select found no row: "Warteschlange ist leer."
EmptyQueue(r) ==
    /\ pc[r] = "select"
    /\ Selectable(r) = {}
    /\ EndJob(r, AfterEmptyQueue(r))
    /\ UNCHANGED callVars
    /\ UNCHANGED <<storeVars, now, variant, startTime, counters, selected>>

\* (a runner that leaves the selected job pending)
MarkProcessingKeepsPending(r) ==
    /\ pc[r] = "mark"
    /\ pc' = [pc EXCEPT ![r] = "scrape"]
    /\ UNCHANGED callVars
    /\ UNCHANGED <<storeVars, now, variant, startTime, localVars, counters,
                   response, selected>>

\* .update({ status: "processing" }).eq("id", item.id); then the page of
\* the job is requested
MarkProcessing(r) ==
    /\ pc[r] = "mark"
    /\ jobs' = UpdateStatus(item[r], "processing")
    /\ pc' = [pc EXCEPT ![r] = "scrape"]
    /\ UNCHANGED callVars
    /\ UNCHANGED <<results, notified, storeOrder, now, variant, startTime,
                   localVars, counters, response, selected>>

\* scrapeAndFindPdfUrl: the link is found ...
ScrapeOk(r) ==
    /\ pc[r] = "scrape"
    /\ Resume(r, Continue("download"))
    /\ UNCHANGED callVars
    /\ UNCHANGED <<storeVars, now, variant, startTime, item, text, scoutReports,
                   response, selected>>

\* ... or the request fails, or the page holds no qualifying link
ScrapeFails(r) ==
    /\ pc[r] = "scrape"
    /\ \E msg \in AcquisitionErrors : Resume(r, Thrown(msg))
    /\ UNCHANGED callVars
    /\ UNCHANGED <<storeVars, now, variant, startTime, item, text, scoutReports,
                   response, selected>>

\* downloadAndParsePdf returns data.text; the update of pdf_storage_path
\* is issued
DownloadOk(r) ==
    /\ pc[r] = "download"
    /\ \E len \in TextLens : text' = [text EXCEPT ![r] = len]
    /\ Resume(r, Continue("setpdf"))
    /\ UNCHANGED callVars
    /\ UNCHANGED <<storeVars, now, variant, startTime, item, scoutReports,
                   response, selected>>

\* the download or pdf-parse throws
DownloadFails(r) ==
    /\ pc[r] = "download"
    /\ Resume(r, Thrown(AxiosError))
    /\ UNCHANGED callVars
    /\ UNCHANGED <<storeVars, now, variant, startTime, item, text, scoutReports,
                   response, selected>>

\* (a runner that enters the synthesis stage right after the acquisition)
SetPdfThenGeneral(r) ==
    /\ pc[r] = "setpdf"
    /\ jobs' = UpdatePdf(item[r], PdfUrl(item[r]))
    /\ pc' = [pc EXCEPT ![r] = "general"]
    /\ UNCHANGED callVars
    /\ UNCHANGED <<results, notified, storeOrder, now, variant, startTime,
                   localVars, counters, response, selected>>

\* .update({ pdf_storage_path: pdfUrl }).eq("id", item.id); then
\* runScoutAnalysis dispatches its calls
SetPdf(r) ==
    /\ pc[r] = "setpdf"
    /\ jobs' = UpdatePdf(item[r], PdfUrl(item[r]))
    /\ pc' = [pc EXCEPT ![r] = "scout"]
    /\ UNCHANGED callVars
    /\ UNCHANGED <<results, notified, storeOrder, now, variant, startTime,
                   localVars, counters, response, selected>>

\* what a chunk call ends with, after its retries
ScoutOutcomes == {"ALPHA", "NO ALPHA - IGNORE", "error"}

\* (a filter that lists the survivors last chunk first)
SurvivorsReversed(reports) ==
    LET F[i \in 0..Len(reports)] ==
            IF i = 0 THEN <<>>
            ELSE IF reports[i] = "NO ALPHA - IGNORE" THEN F[i - 1]
            ELSE <<i>> \o F[i - 1]
    IN F[Len(reports)]

\* scoutReports.filter(report => !report.includes("NO ALPHA - IGNORE")):
\* the chunk numbers whose reports survive, in chunk order
Survivors(reports) ==
    LET F[i \in 0..Len(reports)] ==
            IF i = 0 THEN <<>>
            ELSE IF reports[i] = "NO ALPHA - IGNORE" THEN F[i - 1]
            ELSE Append(F[i - 1], i)
    IN F[Len(reports)]

\* await Promise.all(scoutPromises): every chunk call returned a report ...
ScoutOk(r) ==
    /\ pc[r] = "scout"
    /\ \E reports \in [1..NumChunks(text[r]) -> ScoutOutcomes \ {"error"}] :
          scoutReports' = [scoutReports EXCEPT ![r] = Survivors(reports)]
    /\ text' = [text EXCEPT ![r] = 0]
    /\ Resume(r, Continue("general"))
    /\ UNCHANGED callVars
    /\ UNCHANGED <<storeVars, now, variant, startTime, item, response, selected>>

\* ... or one of them failed for good
ScoutFails(r) ==
    /\ pc[r] = "scout"
    /\ NumChunks(text[r]) > 0
    /\ text' = [text EXCEPT ![r] = 0]
    /\ Resume(r, Thrown(ModelError))
    /\ UNCHANGED callVars
    /\ UNCHANGED <<storeVars, now, variant, startTime, item, scoutReports,
                   response, selected>>

\* runGeneralAnalysis without reports returns the no-signal verdict
GeneralSkipped(r) ==
    /\ pc[r] = "general"
    /\ Len(scoutReports[r]) = 0
    /\ Resume(r, Received(CanonicalText))
    /\ scoutReports' = [scoutReports EXCEPT ![r] = <<>>]
    /\ UNCHANGED callVars
    /\ UNCHANGED <<storeVars, now, variant, startTime, item, text, response,
                   selected>>

\* exponentialBackoff(() => generalModel.generateContent(prompt)) returns
GeneralOk(r) ==
    /\ pc[r] = "general"
    /\ Len(scoutReports[r]) > 0
    /\ \E t \in ModelTexts : Resume(r, GeneralReturned(t))
    /\ scoutReports' = [scoutReports EXCEPT ![r] = <<>>]
    /\ UNCHANGED callVars
    /\ UNCHANGED <<storeVars, now, variant, startTime, item, text, response,
                   selected>>

\* ... or throws after its retries
GeneralFails(r) ==
    /\ pc[r] = "general"
    /\ Len(scoutReports[r]) > 0
    /\ Resume(r, Thrown(ModelError))
    /\ scoutReports' = [scoutReports EXCEPT ![r] = <<>>]
    /\ UNCHANGED callVars
    /\ UNCHANGED <<storeVars, now, variant, startTime, item, text, response,
                   selected>>

\* fixBrokenJson: generalModel.generateContent(fixPrompt) returns
RepairOk(r) ==
    /\ pc[r] = "repair"
    /\ \E t \in ModelTexts :
          Resume(r, RepairReturned(variant[r], FixBrokenJson(variant[r], t)))
    /\ UNCHANGED callVars
    /\ UNCHANGED <<storeVars, now, variant, startTime, item, text, scoutReports,
                   response, selected>>

\* ... or throws: the notifying variant returns "{}", the others let the
\* error pass
RepairFails(r) ==
    /\ pc[r] = "repair"
    /\ Resume(r, IF variant[r] = "notify"
                 THEN RepairReturned(variant[r], EmptyObjectText)
                 ELSE Thrown(ModelError))
    /\ UNCHANGED callVars
    /\ UNCHANGED <<storeVars, now, variant, startTime, item, text, scoutReports,
                   response, selected>>

\* the filter block: .update({ status: "completed" }); jobsIgnored++; continue
Ignore(r) ==
    /\ pc[r] = "ignore"
    /\ jobs' = UpdateStatus(item[r], "completed")
    /\ counters' = [counters EXCEPT ![r] = CountIgnored(r)]
    /\ EndJob(r, AfterJob(r))
    /\ UNCHANGED callVars
    /\ UNCHANGED <<results, notified, storeOrder, now, variant, startTime,
                   selected>>

\* supabase.from("analysis_results").insert({...})
Insert(r) ==
    /\ pc[r] = "insert"
    /\ results' = Append(results, ResultRow(item[r], analysisJson[r]))
    /\ pc' = [pc EXCEPT ![r] = "complete"]
    /\ UNCHANGED callVars
    /\ UNCHANGED <<jobs, notified, storeOrder, now, variant, startTime,
                   localVars, counters, response, selected>>

\* .update({ status: "completed" }); jobsProcessed++; the notifying variant
\* goes on to sendNewAnalysisAlert
Complete(r) ==
    /\ pc[r] = "complete"
    /\ jobs' = UpdateStatus(item[r], "completed")
    /\ counters' = [counters EXCEPT ![r] = CountProcessed(r)]
    /\ IF variant[r] = "notify"
       THEN /\ pc' = [pc EXCEPT ![r] = "notify"]
            /\ UNCHANGED <<localVars, response>>
       ELSE EndJob(r, AfterJob(r))
    /\ UNCHANGED callVars
    /\ UNCHANGED <<results, notified, storeOrder, now, variant, startTime,
                   selected>>

\* await resend.emails.send({...}) returns: emailsSent++
NotifyOk(r) ==
    /\ pc[r] = "notify"
    /\ notified' = [notified EXCEPT ![item[r]] = @ + 1]
    /\ counters' = [counters EXCEPT ![r].emailsSent = @ + 1]
    /\ EndJob(r, AfterJob(r))
    /\ UNCHANGED callVars
    /\ UNCHANGED <<jobs, results, storeOrder, now, variant, startTime, selected>>

\* (an alert error that reaches the outer catch block)
NotifyFailsEscalates(r) ==
    /\ pc[r] = "notify"
    /\ notified' = [notified EXCEPT ![item[r]] = @ + 1]
    /\ Resume(r, Thrown(AxiosError))
    /\ UNCHANGED callVars
    /\ UNCHANGED <<jobs, results, storeOrder, now, variant, startTime, item,
                   text, scoutReports, response, selected>>

\* ... or throws (law_title.substring on a verdict without law_title, or the
\* send rejects): catch (emailError), logged
NotifyFails(r) ==
    /\ pc[r] = "notify"
    /\ notified' = [notified EXCEPT ![item[r]] = @ + 1]
    /\ EndJob(r, AfterJob(r))
    /\ UNCHANGED callVars
    /\ UNCHANGED <<jobs, results, storeOrder, now, variant, startTime, counters,
                   selected>>

\* catch (error): if (item) .update({ status: "failed", pdf_storage_path:
\* error.message }); the handler answers 500
Catch(r) ==
    /\ pc[r] = "catch"
    /\ jobs' = IF item[r] # NoItem
               THEN [jobs EXCEPT ![item[r]] = FailedRow(@, err[r])]
               ELSE jobs
    /\ EndJob(r, AfterCatch(r))
    /\ UNCHANGED callVars
    /\ UNCHANGED <<results, notified, storeOrder, now, variant, startTime,
                   counters, selected>>

\* time passes while an invocation runs
Tick ==
    /\ now < MaxTicks * TickMs
    /\ \E r \in Runners : pc[r] \notin {"off", "idle", "done"}
    /\ now' = now + TickMs
    /\ UNCHANGED callVars
    /\ UNCHANGED <<storeVars, variant, pc, startTime, localVars, counters,
                   response, selected>>

RunnerStep(r) ==
    \/ Start(r) \/ LoopCheck(r) \/ SelectJob(r) \/ EmptyQueue(r)
    \/ MarkProcessing(r) \/ ScrapeOk(r) \/ ScrapeFails(r)
    \/ DownloadOk(r) \/ DownloadFails(r) \/ SetPdf(r)
    \/ ScoutOk(r) \/ ScoutFails(r)
    \/ GeneralSkipped(r) \/ GeneralOk(r) \/ GeneralFails(r)
    \/ RepairOk(r) \/ RepairFails(r)
    \/ Ignore(r) \/ Insert(r) \/ Complete(r)
    \/ NotifyOk(r) \/ NotifyFails(r) \/ Catch(r)

Next == Tick \/ \E r \in Runners : RunnerStep(r)

(***************************************************************************)
(* The configuration check of the batch handler.                           *)
(***************************************************************************)
\* if (!supabaseUrl || ...) return res.status(500).json({ error:
\* "Env-Variablen nicht gesetzt." })
ConfigMissing(r) ==
    /\ pc[r] = "idle"
    /\ IsBatch(r)
    /\ ~(Required(variant[r]) \subseteq config[r])
    /\ pc' = [pc EXCEPT ![r] = "done"]
    /\ response' = [response EXCEPT ![r] = "500"]
    /\ UNCHANGED callVars
    /\ UNCHANGED <<storeVars, now, variant, startTime, localVars, counters,
                   selected>>

NextConfig == Next \/ \E r \in Runners : ConfigMissing(r)

(***************************************************************************)
(* Store calls that fail.                                                  *)
(*                                                                         *)
(* A call of the supabase client that cannot be carried out resolves to    *)
(* { data: null, error }; it does not reject. The runners read error after *)
(* the select only: a write that failed has written nothing and the code   *)
(* goes on as after one that succeeded. faults records the calls that      *)
(* failed, as <<invocation, job, call>>.                                   *)
(***************************************************************************)
\* store calls that fail within one run of the model
MaxFaults == 2

CanFail(r, op) ==
    /\ Cardinality(faults) < MaxFaults
    /\ <<r, item[r], op>> \notin faults
Failed(r, op) == faults' = faults \cup {<<r, item[r], op>>}
\* what a failing store call leaves alone
FaultFrame ==
    <<bk, fn, calls, repairs, config, ingested, seg, sentinelVars>>

\* (a failing select that marks a pending job failed)
SelectFailsMarksFailed(r) ==
    /\ pc[r] = "select"
    /\ CanFail(r, "select")
    /\ Failed(r, "select")
    /\ \E j \in Jobs : jobs' = [jobs EXCEPT ![j] = FailedRow(@, AxiosError)]
    /\ EndJob(r, AfterEmptyQueue(r))
    /\ UNCHANGED FaultFrame
    /\ UNCHANGED <<results, notified, storeOrder, now, variant, startTime,
                   counters, selected>>
\* the select resolves to { error }: if (selectError || !foundItem)
SelectFails(r) ==
    /\ pc[r] = "select"
    /\ CanFail(r, "select")
    /\ Failed(r, "select")
    /\ EndJob(r, AfterEmptyQueue(r))
    /\ UNCHANGED FaultFrame
    /\ UNCHANGED <<storeVars, now, variant, startTime, counters, selected>>

\* .update({ status: "processing" }) resolves to { error }
MarkProcessingFails(r) ==
    /\ pc[r] = "mark"
    /\ CanFail(r, "processing")
    /\ Failed(r, "processing")
    /\ pc' = [pc EXCEPT ![r] = "scrape"]
    /\ UNCHANGED FaultFrame
    /\ UNCHANGED <<storeVars, now, variant, startTime, localVars, counters,
                   response, selected>>

\* .update({ pdf_storage_path: pdfUrl }) resolves to { error }
SetPdfFails(r) ==
    /\ pc[r] = "setpdf"
    /\ CanFail(r, "pdf")
    /\ Failed(r, "pdf")
    /\ pc' = [pc EXCEPT ![r] = "scout"]
    /\ UNCHANGED FaultFrame
    /\ UNCHANGED <<storeVars, now, variant, startTime, localVars, counters,
                   response, selected>>

\* the filter block: .update({ status: "completed" }) resolves to { error }
IgnoreFails(r) ==
    /\ pc[r] = "ignore"
    /\ CanFail(r, "ignored")
    /\ Failed(r, "ignored")
    /\ counters' = [counters EXCEPT ![r] = CountIgnored(r)]
    /\ EndJob(r, AfterJob(r))
    /\ UNCHANGED FaultFrame
    /\ UNCHANGED <<storeVars, now, variant, startTime, selected>>

\* analysis_results.insert({...}) resolves to { error }
InsertFails(r) ==
    /\ pc[r] = "insert"
    /\ CanFail(r, "insert")
    /\ Failed(r, "insert")
    /\ pc' = [pc EXCEPT ![r] = "complete"]
    /\ UNCHANGED FaultFrame
    /\ UNCHANGED <<storeVars, now, variant, startTime, localVars, counters,
                   response, selected>>

\* .update({ status: "completed" }) resolves to { error }
CompleteFails(r) ==
    /\ pc[r] = "complete"
    /\ CanFail(r, "completed")
    /\ Failed(r, "completed")
    /\ counters' = [counters EXCEPT ![r] = CountProcessed(r)]
    /\ IF variant[r] = "notify"
       THEN /\ pc' = [pc EXCEPT ![r] = "notify"]
            /\ UNCHANGED <<localVars, response>>
       ELSE EndJob(r, AfterJob(r))
    /\ UNCHANGED FaultFrame
    /\ UNCHANGED <<storeVars, now, variant, startTime, selected>>

\* catch (error): .update({ status: "failed", ... }) resolves to { error }
CatchFails(r) ==
    /\ pc[r] = "catch"
    /\ item[r] # NoItem
    /\ CanFail(r, "failed")
    /\ Failed(r, "failed")
    /\ EndJob(r, AfterCatch(r))
    /\ UNCHANGED FaultFrame
    /\ UNCHANGED <<storeVars, now, variant, startTime, counters, selected>>

StoreFault(r) ==
    \/ SelectFails(r) \/ MarkProcessingFails(r) \/ SetPdfFails(r)
    \/ IgnoreFails(r) \/ InsertFails(r) \/ CompleteFails(r) \/ CatchFails(r)

NextFaults == Next \/ \E r \in Runners : StoreFault(r)

(***************************************************************************)
(* exponentialBackoff(fn, retries = 5, delay = 1000).                      *)
(*                                                                         *)
(* A call of the wrapper is a record: st says where it is suspended        *)
(* ("calling": await fn(); "waiting": await of the setTimeout promise;     *)
(* "returned" / "raised": it has settled), retries and delay are the       *)
(* arguments of the current recursive call, calls counts the calls of fn,  *)
(* waited adds up the delays slept, out is the value or the error.         *)
(***************************************************************************)
DEFAULT_RETRIES == 5
DEFAULT_DELAY == 1000

NoOut == [isNone |-> TRUE]
\* the value fn resolves to
Value == [value |-> "ok"]
\* error.message of a rate-limit error, and of an error the stricter wrapper
\* names as not recoverable
RateLimited == "429 Too Many Requests"
BadRequest == "400 Bad Request"
ErrorKinds == {RateLimited, BadRequest}
\* the error thrown by call number k of fn
ErrorOf(message, k) == [message |-> message, attempt |-> k]

\* error.message.includes("400 Bad Request") ||
\* error.message.includes("invalid argument")
IsBadRequest(error) == error.message = BadRequest

\* exponentialBackoff is entered: try { return await fn(); }
ExponentialBackoff(retries, delay) ==
    [st |-> "calling", retries |-> retries, delay |-> delay, calls |-> 1,
     waited |-> 0, out |-> NoOut]

\* fn() resolves: return await fn()
FnReturns(c, value) == [c EXCEPT !.st = "returned", !.out = value]

\* fn() rejects: catch (error) { if (retries > 0) { await setTimeout } ...
\* throw error }. The stricter wrapper logs an error of the bad-request kind
\* differently, after the retries > 0 branch.
FnThrowsSwallows(c, error) ==
    IF c.retries > 0 THEN [c EXCEPT !.st = "waiting", !.out = error]
    ELSE [c EXCEPT !.st = "returned", !.out = error]
FnThrows(c, error) ==
    IF c.retries > 0 THEN [c EXCEPT !.st = "waiting", !.out = error]
    ELSE IF IsBadRequest(error) THEN [c EXCEPT !.st = "raised", !.out = error]
    ELSE [c EXCEPT !.st = "raised", !.out = error]
\* the wrapper of api/batch.ts and of the single-job function:
\* catch (error) { if (retries > 0) { ... } throw error; }
FnThrowsPlain(c, error) ==
    IF c.retries > 0 THEN [c EXCEPT !.st = "waiting", !.out = error]
    ELSE [c EXCEPT !.st = "raised", !.out = error]

\* the timer fires: return exponentialBackoff(fn, retries - 1, delay * 2)
TimerFiresSameDelay(c) ==
    [c EXCEPT !.st = "calling", !.retries = @ - 1, !.calls = @ + 1,
              !.waited = @ + c.delay, !.out = NoOut]
TimerFires(c) ==
    [c EXCEPT !.st = "calling", !.retries = @ - 1, !.delay = @ * 2,
              !.calls = @ + 1, !.waited = @ + c.delay, !.out = NoOut]

\* no wrapper call is under way
NoWrapper ==
    [st |-> "none", retries |-> 0, delay |-> 0, calls |-> 0, waited |-> 0,
     out |-> NoOut]
NoFn == [fails |-> 0, message |-> RateLimited, retries |-> 0, strict |-> FALSE]

\* fn: its first `fails` calls reject with `message`, the later ones resolve
\* (more failures than the wrapper makes calls: fn always fails)
MaxFails == 6
Fns ==
    [fails : 0..MaxFails, message : ErrorKinds, retries : 0..DEFAULT_RETRIES,
     strict : BOOLEAN]

\* await fn() resolves
BkFnReturns ==
    /\ bk.st = "calling"
    /\ bk.calls > fn.fails
    /\ bk' = FnReturns(bk, Value)
    /\ UNCHANGED <<fn, histVars, calls, repairs, pipeVars>>

\* await fn() rejects
BkFnThrows ==
    /\ bk.st = "calling"
    /\ bk.calls <= fn.fails
    /\ bk' = IF fn.strict
             THEN FnThrows(bk, ErrorOf(fn.message, bk.calls))
             ELSE FnThrowsPlain(bk, ErrorOf(fn.message, bk.calls))
    /\ UNCHANGED <<fn, histVars, calls, repairs, pipeVars>>

\* the setTimeout promise resolves
BkTimerFires ==
    /\ bk.st = "waiting"
    /\ bk' = TimerFires(bk)
    /\ UNCHANGED <<fn, histVars, calls, repairs, pipeVars>>

NextBackoff == BkFnReturns \/ BkFnThrows \/ BkTimerFires

(***************************************************************************)
(* The model calls of the pipeline, call by call.                          *)
(*                                                                         *)
(* calls[r] holds one record per model call invocation r has issued: the   *)
(* job and the stage it belongs to, whether it was handed to               *)
(* exponentialBackoff, and the state w of that wrapper call (of the bare   *)
(* generateContent promise when it was not). A record is dropped when its  *)
(* outcome has been consumed, or when it settles with nobody awaiting it.  *)
(***************************************************************************)
\* the await that consumes the calls of a stage
JoinOf(stage) ==
    CASE stage = "scout" -> "scoutJoin"
      [] stage = "general" -> "generalJoin"
      [] stage = "repair" -> "repairJoin"

\* exponentialBackoff(() => model.generateContent(prompt))
WrappedCall(j, stage) ==
    [job |-> j, stage |-> stage, wrapped |-> TRUE,
     w |-> ExponentialBackoff(DEFAULT_RETRIES, DEFAULT_DELAY)]

\* generalModel.generateContent(fixPrompt)
DirectCall(j, stage) ==
    [job |-> j, stage |-> stage, wrapped |-> FALSE,
     w |-> [st |-> "calling", retries |-> 0, delay |-> 0, calls |-> 1,
            waited |-> 0, out |-> NoOut]]

InFlight(c) == c.w.st \in {"calling", "waiting"}
\* invocation r is suspended on the outcome of call c
Awaited(r, c) == c.job = item[r] /\ pc[r] = JoinOf(c.stage)
\* the calls of the stage invocation r is suspended on, in the order of issue
AwaitedCalls(r) == SelectSeq(calls[r], LAMBDA c : Awaited(r, c))
\* what stays of calls[r] when the awaited outcome is consumed
LeftInFlight(r) == SelectSeq(calls[r], LAMBDA c : InFlight(c))

\* what generateContent(...).text() resolves to, per stage
TextsOf(stage) ==
    IF stage = "scout" THEN ScoutOutcomes \ {"error"} ELSE ModelTexts

\* call i of invocation r has a new state c
Settle(r, i, c) ==
    calls' = [calls EXCEPT ![r] =
                IF InFlight(c) \/ Awaited(r, calls[r][i])
                THEN [@ EXCEPT ![i] = c]
                ELSE SelectSeq([@ EXCEPT ![i] = c], InFlight)]

\* runScoutAnalysis: chunks.map(...) issues one wrapped call per chunk, then
\* await Promise.all(scoutPromises)
ScoutDispatch(r) ==
    /\ pc[r] = "scout"
    /\ calls' = [calls EXCEPT ![r] =
                   @ \o [i \in 1..NumChunks(text[r]) |->
                            WrappedCall(item[r], "scout")]]
    /\ text' = [text EXCEPT ![r] = 0]
    /\ pc' = [pc EXCEPT ![r] = "scoutJoin"]
    /\ UNCHANGED <<storeVars, bk, fn, histVars, repairs, now, variant,
                   startTime, item, scoutReports, analysisJson, err, counters,
                   response, selected>>

\* generateContent resolves
CallReturnsAt(r, i) ==
    /\ calls[r][i].w.st = "calling"
    /\ \E t \in TextsOf(calls[r][i].stage) :
          Settle(r, i, [calls[r][i] EXCEPT !.w = FnReturns(@, [text |-> t])])
    /\ UNCHANGED <<pipeVars, bk, fn, histVars, repairs>>

\* generateContent rejects
CallThrowsAt(r, i) ==
    /\ calls[r][i].w.st = "calling"
    /\ LET c == calls[r][i]
           error == ErrorOf(ModelError, c.w.calls)
       IN Settle(r, i,
             [c EXCEPT !.w =
                 IF ~c.wrapped THEN [@ EXCEPT !.st = "raised", !.out = error]
                 ELSE IF variant[r] = "notify" THEN FnThrows(@, error)
                 ELSE FnThrowsPlain(@, error)])
    /\ UNCHANGED <<pipeVars, bk, fn, histVars, repairs>>

\* the backoff timer of a call fires
CallTimerFiresAt(r, i) ==
    /\ calls[r][i].w.st = "waiting"
    /\ Settle(r, i, [calls[r][i] EXCEPT !.w = TimerFires(@)])
    /\ UNCHANGED <<pipeVars, bk, fn, histVars, repairs>>

\* await Promise.all(scoutPromises) rejects with the first rejection
ScoutJoinRejects(r) ==
    /\ pc[r] = "scoutJoin"
    /\ \E i \in DOMAIN AwaitedCalls(r) : AwaitedCalls(r)[i].w.st = "raised"
    /\ calls' = [calls EXCEPT ![r] = LeftInFlight(r)]
    /\ Resume(r, Thrown(ModelError))
    /\ UNCHANGED <<storeVars, bk, fn, histVars, repairs, now, variant,
                   startTime, item, text, scoutReports, response, selected>>

\* await Promise.all(scoutPromises) resolves when every promise has; the
\* reports are filtered and runGeneralAnalysis is entered
ScoutJoinResolves(r) ==
    /\ pc[r] = "scoutJoin"
    /\ \A i \in DOMAIN AwaitedCalls(r) : AwaitedCalls(r)[i].w.st = "returned"
    /\ scoutReports' = [scoutReports EXCEPT ![r] =
          Survivors([i \in DOMAIN AwaitedCalls(r) |->
                        AwaitedCalls(r)[i].w.out.text])]
    /\ calls' = [calls EXCEPT ![r] = LeftInFlight(r)]
    /\ Resume(r, Continue("general"))
    /\ UNCHANGED <<storeVars, bk, fn, histVars, repairs, now, variant,
                   startTime, item, text, response, selected>>

\* runGeneralAnalysis: await exponentialBackoff(() =>
\* generalModel.generateContent(prompt)) is issued
GeneralDispatch(r) ==
    /\ pc[r] = "general"
    /\ Len(scoutReports[r]) > 0
    /\ calls' = [calls EXCEPT ![r] = Append(@, WrappedCall(item[r], "general"))]
    /\ scoutReports' = [scoutReports EXCEPT ![r] = <<>>]
    /\ pc' = [pc EXCEPT ![r] = "generalJoin"]
    /\ UNCHANGED <<storeVars, bk, fn, histVars, repairs, now, variant,
                   startTime, item, text, analysisJson, err, counters,
                   response, selected>>

\* the wrapped call has settled: the text is stripped and parsed, or the
\* error passes to the catch block
GeneralJoin(r) ==
    /\ pc[r] = "generalJoin"
    /\ \E i \in DOMAIN AwaitedCalls(r) :
          LET w == AwaitedCalls(r)[i].w
          IN \/ w.st = "returned" /\ Resume(r, GeneralReturned(w.out.text))
             \/ w.st = "raised" /\ Resume(r, Thrown(ModelError))
    /\ calls' = [calls EXCEPT ![r] = LeftInFlight(r)]
    /\ UNCHANGED <<storeVars, bk, fn, histVars, repairs, now, variant,
                   startTime, item, text, scoutReports, response, selected>>

\* fixBrokenJson: await generalModel.generateContent(fixPrompt) is issued
RepairDispatch(r) ==
    /\ pc[r] = "repair"
    /\ calls' = [calls EXCEPT ![r] = Append(@, DirectCall(item[r], "repair"))]
    /\ pc' = [pc EXCEPT ![r] = "repairJoin"]
    /\ UNCHANGED <<storeVars, bk, fn, histVars, repairs, now, variant,
                   startTime, localVars, counters, response, selected>>

\* the repair call has settled
RepairJoin(r) ==
    /\ pc[r] = "repairJoin"
    /\ \E i \in DOMAIN AwaitedCalls(r) :
          LET w == AwaitedCalls(r)[i].w
          IN \/ /\ w.st = "returned"
                /\ Resume(r, RepairReturned(variant[r],
                                 FixBrokenJson(variant[r], w.out.text)))
                /\ repairs' = [repairs EXCEPT ![r] = @ \cup
                      {<<item[r],
                         IF Parses(FixBrokenJson(variant[r], w.out.text))
                         THEN "parses" ELSE "broken">>}]
             \/ /\ w.st = "raised"
                /\ Resume(r, IF variant[r] = "notify"
                             THEN RepairReturned(variant[r], EmptyObjectText)
                             ELSE Thrown(ModelError))
                /\ repairs' = [repairs EXCEPT ![r] = @ \cup
                                 {<<item[r], "threw">>}]
    /\ calls' = [calls EXCEPT ![r] = LeftInFlight(r)]
    /\ UNCHANGED <<storeVars, bk, fn, histVars, now, variant, startTime, item,
                   text, scoutReports, response, selected>>

CallReturns(r) == \E i \in DOMAIN calls[r] : CallReturnsAt(r, i)
CallThrows(r) == \E i \in DOMAIN calls[r] : CallThrowsAt(r, i)
CallTimerFires(r) == \E i \in DOMAIN calls[r] : CallTimerFiresAt(r, i)

RunnerStepCalls(r) ==
    \/ Start(r) \/ LoopCheck(r) \/ SelectJob(r) \/ EmptyQueue(r)
    \/ MarkProcessing(r) \/ ScrapeOk(r) \/ ScrapeFails(r)
    \/ DownloadOk(r) \/ DownloadFails(r) \/ SetPdf(r)
    \/ ScoutDispatch(r) \/ ScoutJoinRejects(r) \/ ScoutJoinResolves(r)
    \/ GeneralSkipped(r) \/ GeneralDispatch(r) \/ GeneralJoin(r)
    \/ RepairDispatch(r) \/ RepairJoin(r)
    \/ Ignore(r) \/ Insert(r) \/ Complete(r)
    \/ NotifyOk(r) \/ NotifyFails(r) \/ Catch(r)
    \/ CallReturns(r) \/ CallThrows(r) \/ CallTimerFires(r)

NextCalls == Tick \/ \E r \in Runners : RunnerStepCalls(r)

(***************************************************************************)
(* The segmenter of runScoutAnalysis:                                      *)
(*     const chunks = fullText.match(/[\s\S]{1,10000}/g) || [];            *)
(*                                                                         *)
(* A text is a sequence of characters (the code units of the string). A    *)
(* pattern is the character class and the upper bound of its quantifier;   *)
(* a match is the pair of the first and the last index it covers. With the *)
(* g flag every match starts where the one before ended, at the first      *)
(* character of the class, and the greedy quantifier takes as many         *)
(* characters of the class as the bound allows. No match at all is null,   *)
(* which || [] turns into the empty list.                                  *)
(***************************************************************************)
LF == "\n"
Chars == {"x", " ", LF}
\* \s
Whitespace == {" ", LF}

\* (a pattern whose class is the dot: every character but the line break)
ChunkPatternDot == [class |-> Chars \ {LF}, max |-> CHUNK_SIZE]
\* /[\s\S]{1,10000}/g
ChunkPattern ==
    [class |-> Whitespace \cup (Chars \ Whitespace), max |-> CHUNK_SIZE]

\* the least element of the set of indices S, or d when there is none
FirstOf(S, d) == IF S = {} THEN d ELSE CHOOSE i \in S : \A k \in S : i <= k

\* String.prototype.match with a global pattern, from index `from` on
RECURSIVE MatchAll(_, _, _)
MatchAll(txt, pat, from) ==
    LET first == FirstOf({i \in from..Len(txt) : txt[i] \in pat.class},
                         Len(txt) + 1)
        hi == IF first + pat.max - 1 < Len(txt) THEN first + pat.max - 1
              ELSE Len(txt)
        stop == FirstOf({i \in first..hi : txt[i] \notin pat.class}, hi + 1)
    IN  IF first > Len(txt) THEN <<>>
        ELSE <<[from |-> first, to |-> stop - 1]>> \o MatchAll(txt, pat, stop)

\* the chunk a match stands for
ChunkOf(txt, m) == SubSeq(txt, m.from, m.to)
\* chunks[0] + chunks[1] + ...
RECURSIVE Concat(_, _)
Concat(txt, ms) ==
    IF ms = <<>> THEN <<>> ELSE ChunkOf(txt, Head(ms)) \o Concat(txt, Tail(ms))

\* the texts tried: their lengths lie around the multiples of the chunk
\* size, and line breaks stand at some of the positions in nl
SegLens ==
    {0, 1} \cup {k * CHUNK_SIZE + d : k \in 1..MaxChunks, d \in {-1, 0, 1}}
BreakPositions(len) == {1, CHUNK_SIZE, CHUNK_SIZE + 1, len} \cap 1..len
SegInputs ==
    UNION {{[len |-> l, nl |-> b] : b \in SUBSET BreakPositions(l)} :
             l \in SegLens}
TextOf(in) ==
    [i \in 1..in.len |->
        IF i \in in.nl THEN LF ELSE IF i % 2 = 0 THEN " " ELSE "x"]

\* no call of the segmenter
NoSeg == [input |-> [len |-> 0, nl |-> {}], called |-> FALSE, matches |-> <<>>]

\* const chunks = fullText.match(/[\s\S]{1,10000}/g) || []
SegmentText ==
    /\ ~seg.called
    /\ seg' = [seg EXCEPT !.called = TRUE,
                          !.matches = MatchAll(TextOf(seg.input), ChunkPattern, 1)]
    /\ UNCHANGED <<pipeVars, bk, fn, calls, repairs, config, ingested, faults,
                   sentinelVars>>

NextSegment == SegmentText

(***************************************************************************)
(* runSentinel: the feeds are read one after the other; for every item of  *)
(* a feed the table is asked for a row with the link of the item, and a    *)
(* row is inserted when there is none.                                     *)
(*                                                                         *)
(* legislations.rows holds link, status and pdf_storage_path of the rows,  *)
(* and in `by` the run that inserted the row (not a column).  uniqueLink   *)
(* says whether the table has a unique constraint on link: the schema is   *)
(* not part of the repository. sentinel[r] is the state of run r: the      *)
(* await it is suspended on, the feeds it has still to finish, the items   *)
(* left of the current feed (the first one is the item being handled) and  *)
(* newEntriesCount.                                                        *)
(***************************************************************************)
\* feeds read by one run (RSS_FEED_URLS), items taken from a feed
\* (slice(0, 15)), and the links that occur
NumFeeds == 2
MaxItems == 2
Links == {"a", "b"}
\* an item without link or title
NoLink == ""
FeedContents == UNION {[1..n -> Links \cup {NoLink}] : n \in 0..MaxItems}

NoSentinel == [pc |-> "off", feedsLeft |-> 0, items |-> <<>>, newEntries |-> 0]
SentinelOff ==
    /\ legislations = [rows |-> <<>>, uniqueLink |-> FALSE]
    /\ sentinel = [r \in Runners |-> NoSentinel]

\* .select("link").eq("link", l)
RowsWithLink(l) ==
    {i \in DOMAIN legislations.rows : legislations.rows[i].link = l}

\* if (!link || !title) continue
RECURSIVE SkipUnlinked(_)
SkipUnlinked(items) ==
    IF items # <<>> /\ Head(items) = NoLink THEN SkipUnlinked(Tail(items))
    ELSE items

\* the for loops go on with `items` left of the current feed: the next item
\* is checked, or the next feed is requested, or runSentinel returns
NextItem(st, items) ==
    IF SkipUnlinked(items) # <<>>
    THEN [st EXCEPT !.pc = "check", !.items = SkipUnlinked(items)]
    ELSE IF st.feedsLeft > 1
    THEN [st EXCEPT !.pc = "fetch", !.feedsLeft = @ - 1, !.items = <<>>]
    ELSE [st EXCEPT !.pc = "returned", !.feedsLeft = 0, !.items = <<>>]

\* what the sentinel steps leave alone
SentinelFrame ==
    <<pipeVars, bk, fn, calls, repairs, config, ingested, faults, seg>>

\* axios.get(feedUrl) and parser.parseString return: itemsToProcess
SentinelFetchOk(r) ==
    /\ sentinel[r].pc = "fetch"
    /\ \E c \in FeedContents :
          sentinel' = [sentinel EXCEPT ![r] = NextItem(@, c)]
    /\ UNCHANGED <<legislations, SentinelFrame>>

\* ... or one of them throws: catch (error), next feed
SentinelFetchFails(r) ==
    /\ sentinel[r].pc = "fetch"
    /\ sentinel' = [sentinel EXCEPT ![r] = NextItem(@, <<>>)]
    /\ UNCHANGED <<legislations, SentinelFrame>>

\* .maybeSingle() finds a row (or several, which is an error):
\* if (existing || checkError) continue
SentinelCheckFound(r) ==
    /\ sentinel[r].pc = "check"
    /\ RowsWithLink(Head(sentinel[r].items)) # {}
    /\ sentinel' = [sentinel EXCEPT ![r] = NextItem(@, Tail(@.items))]
    /\ UNCHANGED <<legislations, SentinelFrame>>

\* the select resolves to { error }
SentinelCheckFails(r) ==
    /\ sentinel[r].pc = "check"
    /\ sentinel' = [sentinel EXCEPT ![r] = NextItem(@, Tail(@.items))]
    /\ UNCHANGED <<legislations, SentinelFrame>>

\* .maybeSingle() finds no row: the insert is issued
SentinelCheckNone(r) ==
    /\ sentinel[r].pc = "check"
    /\ RowsWithLink(Head(sentinel[r].items)) = {}
    /\ sentinel' = [sentinel EXCEPT ![r].pc = "insert"]
    /\ UNCHANGED <<legislations, SentinelFrame>>

\* .insert({ title, link, publish_date, pdf_storage_path: null,
\* status: "pending" }) succeeds: newEntriesCount++
SentinelInsertOk(r) ==
    /\ sentinel[r].pc = "insert"
    /\ legislations.uniqueLink => RowsWithLink(Head(sentinel[r].items)) = {}
    /\ legislations' = [legislations EXCEPT !.rows = Append(@,
          [link |-> Head(sentinel[r].items), status |-> "pending",
           pdf_storage_path |-> Null, by |-> r])]
    /\ sentinel' = [sentinel EXCEPT ![r] =
          NextItem([@ EXCEPT !.newEntries = @ + 1], Tail(@.items))]
    /\ UNCHANGED SentinelFrame

\* ... or resolves to { insertError }: logged, not counted
SentinelInsertFails(r) ==
    /\ sentinel[r].pc = "insert"
    /\ sentinel' = [sentinel EXCEPT ![r] = NextItem(@, Tail(@.items))]
    /\ UNCHANGED <<legislations, SentinelFrame>>

SentinelStep(r) ==
    \/ SentinelFetchOk(r) \/ SentinelFetchFails(r)
    \/ SentinelCheckFound(r) \/ SentinelCheckFails(r) \/ SentinelCheckNone(r)
    \/ SentinelInsertOk(r) \/ SentinelInsertFails(r)

NextSentinel == \E r \in Runners : SentinelStep(r)

(***************************************************************************)
(* Initial states: n pending jobs as the Sentinel inserted them, and the   *)
(* invocations in `running` about to start.                                *)
(***************************************************************************)
InitWith(n, running, vs, order) ==
    /\ storeOrder = order
    /\ jobs = [j \in 1..n |-> [status |-> "pending", pdf_storage_path |-> Null]]
    /\ results = <<>>
    /\ notified = [j \in 1..n |-> 0]
    /\ now = 0
    /\ variant \in [Runners -> vs]
    /\ \A r, q \in Runners : r \notin running \/ q \notin running =>
                               variant[r] = variant[q]
    /\ pc = [r \in Runners |-> IF r \in running THEN "idle" ELSE "off"]
    /\ startTime = [r \in Runners |-> 0]
    /\ item = [r \in Runners |-> NoItem]
    /\ text = [r \in Runners |-> 0]
    /\ scoutReports = [r \in Runners |-> <<>>]
    /\ analysisJson = [r \in Runners |-> NoJson]
    /\ err = [r \in Runners |-> NoErr]
    /\ counters = [r \in Runners |-> ZeroCounters]
    /\ response = [r \in Runners |-> "none"]
    /\ selected = [r \in Runners |-> {}]
    /\ bk = NoWrapper
    /\ fn = NoFn
    /\ calls = [r \in Runners |-> <<>>]
    /\ repairs = [r \in Runners |-> {}]
    /\ ingested = [r \in Runners |-> FALSE]
    /\ faults = {}

\* every setting is present
Configured == config = [r \in Runners |-> Settings]

\* two invocations that may overlap
Init ==
    InitWith(NumJobs, Runners, Variants, "any")
        /\ Configured /\ seg = NoSeg /\ SentinelOff
Spec == Init /\ [][Next]_vars

\* one invocation
InitSeq ==
    InitWith(NumJobsSeq, {"r1"}, Variants, "any")
        /\ Configured /\ seg = NoSeg /\ SentinelOff
SpecSeq == InitSeq /\ [][Next]_vars

\* one invocation whose awaited calls all settle: a continuation that can run
\* does run
FairSeq == SpecSeq /\ \A r \in Runners : WF_vars(RunnerStep(r))

\* one invocation on the five-row queue
InitQueue ==
    InitWith(NumJobsQueue, {"r1"}, {"batch", "notify"}, "oldest")
        /\ Configured /\ seg = NoSeg /\ SentinelOff
SpecQueue == InitQueue /\ [][Next]_vars

\* one invocation, its model calls taken one by one
InitCalls ==
    InitWith(NumJobsSeq, {"r1"}, Variants, "any")
        /\ Configured /\ seg = NoSeg /\ SentinelOff
SpecCalls == InitCalls /\ [][NextCalls]_vars

\* one batch invocation, with any of the settings missing
InitConfig ==
    /\ InitWith(NumJobs, {"r1"}, {"batch", "notify"}, "any")
    /\ config \in [Runners -> SUBSET Settings]
    /\ config["r2"] = Settings
    /\ seg = NoSeg /\ SentinelOff
SpecConfig == InitConfig /\ [][NextConfig]_vars

\* one invocation whose store calls may fail
InitFaults ==
    InitWith(NumJobsSeq, {"r1"}, Variants, "any")
        /\ Configured /\ seg = NoSeg /\ SentinelOff
SpecFaults == InitFaults /\ [][NextFaults]_vars

\* two runs of runSentinel that may overlap, on an empty table
InitSentinel ==
    /\ InitWith(0, {}, {"notify"}, "any")
    /\ Configured
    /\ seg = NoSeg
    /\ legislations \in {[rows |-> <<>>, uniqueLink |-> u] : u \in BOOLEAN}
    /\ sentinel = [r \in Runners |->
                     [pc |-> "fetch", feedsLeft |-> NumFeeds, items |-> <<>>,
                      newEntries |-> 0]]
SpecSentinel == InitSentinel /\ [][NextSentinel]_vars

\* one call of the segmenter
InitSegment ==
    /\ InitWith(0, {}, {"notify"}, "any")
    /\ Configured
    /\ seg \in {[input |-> in, called |-> FALSE, matches |-> <<>>] :
                  in \in SegInputs}
    /\ SentinelOff
SpecSegment == InitSegment /\ [][NextSegment]_vars

\* one call of exponentialBackoff(fn, retries), with the default delay
InitBackoff ==
    /\ fn \in Fns
    /\ bk = ExponentialBackoff(fn.retries, DEFAULT_DELAY)
    /\ calls = [r \in Runners |-> <<>>]
    /\ repairs = [r \in Runners |-> {}]
    /\ storeOrder = "any"
    /\ jobs = <<>>
    /\ results = <<>>
    /\ notified = <<>>
    /\ now = 0
    /\ variant = [r \in Runners |-> "notify"]
    /\ pc = [r \in Runners |-> "off"]
    /\ startTime = [r \in Runners |-> 0]
    /\ item = [r \in Runners |-> NoItem]
    /\ text = [r \in Runners |-> 0]
    /\ scoutReports = [r \in Runners |-> <<>>]
    /\ analysisJson = [r \in Runners |-> NoJson]
    /\ err = [r \in Runners |-> NoErr]
    /\ counters = [r \in Runners |-> ZeroCounters]
    /\ response = [r \in Runners |-> "none"]
    /\ selected = [r \in Runners |-> {}]
    /\ ingested = [r \in Runners |-> FALSE]
    /\ faults = {}
    /\ Configured
    /\ seg = NoSeg /\ SentinelOff
SpecBackoff == InitBackoff /\ [][NextBackoff]_vars

(***************************************************************************)
(* Properties.                                                             *)
(***************************************************************************)
\* the rows of analysis_results that reference job j
RowsOf(j) == {i \in DOMAIN results : results[i].legislation_id = j}
\* invocation r has taken a step
Stepped(r) == pc'[r] # pc[r]
PostParse == {"ignore", "insert", "complete", "notify"}
ErrorMessages ==
    {NoPdfLink, AxiosError, ModelError, SyntaxError, FixFailed, TypeError}
CountSum(r) == counters[r].processed + counters[r].ignored + counters[r].failed

\* C1: an exception raised while a job is processed is handled in the catch
\* block of the runner with that job selected; the catch block writes status
\* failed and the exception's message into pdf_storage_path of that job and
\* touches nothing else, and runForge stays in its loop (the handler answers
\* 500). A job that failed in Text Acquisition for want of a PDF link has no
\* row in analysis_results.
C1_CatchStep ==
    \A r \in Runners :
        pc[r] = "catch" /\ Stepped(r) =>
            /\ jobs' = [jobs EXCEPT ![item[r]] =
                          [status |-> "failed", pdf_storage_path |-> err[r]]]
            /\ results' = results
            /\ pc'[r] = IF IsBatch(r) THEN "loop" ELSE "done"
C1_Handled ==
    /\ \A r \in Runners :
          /\ pc[r] = "catch" <=> err[r] # NoErr
          /\ pc[r] = "catch" => item[r] \in Jobs /\ err[r] \in ErrorMessages
    /\ \A j \in Jobs :
          jobs[j].status = "failed" =>
              /\ jobs[j].pdf_storage_path \in ErrorMessages
              /\ jobs[j].pdf_storage_path = NoPdfLink => RowsOf(j) = {}
\* C1: every exception is handled by the catch block, which marks the selected
\* job failed with the message and leaves the invocation running; a job
\* failed for want of a PDF link has no row.
C1_ExceptionsCaught == []C1_Handled /\ [][C1_CatchStep]_vars
C1_Witness ==
    \E j \in Jobs :
        /\ jobs[j].status = "failed"
        /\ jobs[j].pdf_storage_path = NoPdfLink
        /\ RowsOf(j) = {}
        /\ pc["r1"] = "loop"

\* C2: a job whose parsed verdict has no confidence score, or one that is
\* zero or negative, takes the rejection path and no other: the job is set
\* to completed, no row is inserted, and runForge counts it as ignored, not
\* as processed or failed.
C2_Low(v) ==
    \/ "confidence_score_percent" \notin DOMAIN v
    \/ v.confidence_score_percent <= 0
C2_RejectPath ==
    \A r \in Runners :
        pc[r] \in PostParse =>
            /\ analysisJson[r] \notin {NoJson, JsonNull}
            /\ C2_Low(analysisJson[r]) <=> pc[r] = "ignore"
C2_IgnoreStep ==
    \A r \in Runners :
        pc[r] = "ignore" /\ Stepped(r) =>
            /\ jobs' = [jobs EXCEPT ![item[r]].status = "completed"]
            /\ results' = results
            /\ notified' = notified
            /\ counters'[r] = IF IsBatch(r)
                              THEN [counters[r] EXCEPT !.ignored = @ + 1]
                              ELSE counters[r]
            /\ pc'[r] = IF IsBatch(r) THEN "loop" ELSE "done"
\* C2: a verdict without a positive confidence score is rejected: the job is
\* completed, nothing is inserted, the job counts as ignored.
C2_RejectedIsIgnored == []C2_RejectPath /\ [][C2_IgnoreStep]_vars
C2_Witness ==
    \E j \in Jobs :
        /\ jobs[j].status = "completed"
        /\ RowsOf(j) = {}
        /\ counters["r1"].ignored = 1
        /\ counters["r1"].processed = 0
        /\ counters["r1"].failed = 0

\* C3: a job whose parsed verdict has a confidence score above zero takes the
\* acceptance path: one row is appended to analysis_results with the job's
\* id, the verdict's confidence score and the verdict's time horizon (0 when
\* the verdict has none), and the next write sets the job to completed.
C3_AcceptPath ==
    \A r \in Runners :
        pc[r] \in {"insert", "complete", "notify"} =>
            /\ "confidence_score_percent" \in DOMAIN analysisJson[r]
            /\ analysisJson[r].confidence_score_percent > 0
            /\ Cardinality(RowsOf(item[r])) = IF pc[r] = "insert" THEN 0 ELSE 1
            /\ pc[r] = "notify" => jobs[item[r]].status = "completed"
C3_InsertStep ==
    \A r \in Runners :
        /\ pc[r] = "insert" /\ Stepped(r) =>
              /\ results' = Append(results,
                    [legislation_id |-> item[r],
                     confidence_score |-> analysisJson[r].confidence_score_percent,
                     time_horizon_months |->
                        IF "time_horizon_months" \in DOMAIN analysisJson[r]
                        THEN analysisJson[r].time_horizon_months ELSE 0])
              /\ jobs' = jobs
              /\ pc'[r] = "complete"
        /\ pc[r] = "complete" /\ Stepped(r) =>
              /\ jobs' = [jobs EXCEPT ![item[r]].status = "completed"]
              /\ results' = results
\* C3: a verdict with a positive confidence score is stored as one row that
\* mirrors it, and the job is completed after the insert.
C3_AcceptedIsStored == []C3_AcceptPath /\ [][C3_InsertStep]_vars
C3_Witness ==
    \E j \in Jobs :
        /\ jobs[j].status = "completed"
        /\ \E i \in RowsOf(j) :
              /\ results[i].confidence_score = 85
              /\ results[i].time_horizon_months = 0
        /\ Cardinality(RowsOf(j)) = 1

\* C4: in every state each job has at most one row in analysis_results, a
\* row belongs to a job that was accepted (confidence score above zero), and
\* the table only grows by appending: no row is changed or removed.
C4_RowsState ==
    /\ \A j \in Jobs : Cardinality(RowsOf(j)) <= 1
    /\ \A i \in DOMAIN results :
          /\ results[i].legislation_id \in Jobs
          /\ results[i].confidence_score > 0
C4_RowsKept ==
    /\ Len(results') >= Len(results)
    /\ \A i \in DOMAIN results : results'[i] = results[i]
\* C4: at most one row per job, rows only for accepted jobs, rows never
\* changed or removed, also when invocations overlap.
C4_OneRowPerJob == []C4_RowsState /\ [][C4_RowsKept]_vars
\* the part of C4 that the code keeps when invocations overlap
C4_RowsAcceptedAndKept ==
    /\ [](\A i \in DOMAIN results : results[i].confidence_score > 0)
    /\ [][C4_RowsKept]_vars

\* C5: the status of a job changes only from pending to processing, from
\* processing to completed and from processing to failed; a completed or
\* failed job keeps its status and no job returns to pending.
C5_Legal ==
    {<<"pending", "processing">>, <<"processing", "completed">>,
     <<"processing", "failed">>}
C5_StatusStep ==
    \A j \in Jobs :
        jobs'[j].status # jobs[j].status =>
            <<jobs[j].status, jobs'[j].status>> \in C5_Legal
\* C5: every change of a job's status is one of the three legal ones, also
\* when invocations overlap.
C5_Lifecycle == [][C5_StatusStep]_vars

\* C6: the select and the write of processing are two steps: the select
\* writes nothing, so the row it returned is still pending, and still
\* returned to any other invocation that selects, until the write is done.
C6_SelectStep ==
    \A r \in Runners :
        pc[r] = "select" /\ pc'[r] = "mark" =>
            /\ jobs' = jobs
            /\ jobs[item'[r]].status = "pending"
            /\ \A q \in Runners : pc'[q] = "select" => item'[r] \in Selectable(q)'
\* C6: the select changes nothing in the store, so the selected job stays
\* selectable by the other invocation until processing is written.
C6_SelectThenUpdate == [][C6_SelectStep]_vars
\* both invocations selected the same job and both have run the pipeline on
\* it up to the insert
C6_Witness ==
    /\ item["r1"] = item["r2"]
    /\ item["r1"] \in Jobs
    /\ pc["r1"] = "complete"
    /\ pc["r2"] = "complete"
    /\ Cardinality(RowsOf(item["r1"])) = 2

\* C7: after the catch block has marked a job failed, runForge is back at
\* the loop check; with budget left it issues the select, and the select
\* returns a pending job if there is one, which is then processed.
C7_LoopGoesOn ==
    \A r \in Runners :
        IsBatch(r) =>
            /\ pc[r] = "catch" /\ Stepped(r) =>
                  /\ pc'[r] = "loop"
                  /\ jobs'[item[r]].status = "failed"
            /\ pc[r] = "loop" /\ Stepped(r)
                  /\ now - startTime[r] < MAX_EXECUTION_TIME_MS =>
                  pc'[r] = "select"
            /\ pc[r] = "select" /\ Stepped(r) /\ PendingJobs # {} =>
                  /\ pc'[r] = "mark"
                  /\ item'[r] \in PendingJobs
            /\ pc[r] = "mark" /\ Stepped(r) =>
                  /\ pc'[r] = "scrape"
                  /\ jobs'[item[r]].status = "processing"
\* C7: a failed job leaves runForge in its loop, which selects and processes
\* the next pending job while budget is left.
C7_FailureDoesNotAbort == [][C7_LoopGoesOn]_vars
C7_Witness ==
    \E r \in Runners, j \in Jobs :
        /\ IsBatch(r)
        /\ jobs[j].status = "failed"
        /\ counters[r].failed = 1
        /\ item[r] \in Jobs \ {j}
        /\ pc[r] = "scrape"

\* C8: runForge issues a select only when the loop check found
\* now - startTime < 270000; from a job in flight it does not return before
\* the job is completed or failed, whatever the clock shows; a job it did not
\* select is still pending with a null document reference; and when it has
\* returned, processed + ignored + failed is the number of jobs it selected
\* and every other job is pending.
C8_BudgetStep ==
    \A r \in Runners :
        IsBatch(r) =>
            /\ pc[r] = "loop" /\ pc'[r] = "select" =>
                  now - startTime[r] < MAX_EXECUTION_TIME_MS
            /\ pc[r] = "loop" /\ pc'[r] = "done" =>
                  now - startTime[r] >= MAX_EXECUTION_TIME_MS
            /\ pc'[r] = "done" /\ Stepped(r) => pc[r] \in {"loop", "select"}
C8_State ==
    \A r \in Runners :
        pc[r] # "off" =>
            /\ \A j \in Jobs \ selected[r] :
                  jobs[j] = [status |-> "pending", pdf_storage_path |-> Null]
            /\ pc[r] = "done" =>
                  /\ CountSum(r) = Cardinality(selected[r])
                  /\ Cardinality(PendingJobs) =
                        Cardinality(Jobs) - Cardinality(selected[r])
                  /\ \A j \in selected[r] :
                        jobs[j].status \in {"completed", "failed"}
\* C8: selects happen only within the budget, a job in flight is finished,
\* unselected jobs stay untouched, and the returned counts add up to the
\* jobs selected.
C8_Budget == []C8_State /\ [][C8_BudgetStep]_vars
\* five jobs, the budget was exceeded after two of them
C8_Witness ==
    /\ Cardinality(Jobs) = 5
    /\ pc["r1"] = "done"
    /\ now - startTime["r1"] >= MAX_EXECUTION_TIME_MS
    /\ CountSum("r1") = 2
    /\ Cardinality(PendingJobs) = 3

\* C9: when the select finds no pending job the invocation ends at once,
\* whatever is left of the budget: it writes no job row and no result row,
\* sends nothing, counts nothing and answers 200; after that it takes no
\* further step.
C9_EmptyStep ==
    \A r \in Runners :
        /\ pc[r] = "select" /\ Stepped(r) /\ PendingJobs = {} =>
              /\ pc'[r] = "done"
              /\ response'[r] = "200"
              /\ UNCHANGED <<jobs, results, notified, counters, now>>
        /\ pc[r] = "done" => pc'[r] = "done"
\* C9: an empty queue ends the invocation at once and without any write or
\* call.
C9_EmptyQueueStops == [][C9_EmptyStep]_vars
C9_Witness ==
    \E r \in Runners :
        /\ pc[r] = "done"
        /\ IsBatch(r)
        /\ PendingJobs = {}
        /\ now - startTime[r] < MAX_EXECUTION_TIME_MS

\* C10: when runForge has returned, processed is the number of jobs it
\* completed with a row, ignored the number it completed without a row,
\* failed the number it marked failed, and the three add up to the number of
\* jobs it moved out of pending.
C10_Counters ==
    \A r \in Runners :
        pc[r] = "done" /\ IsBatch(r) =>
            /\ counters[r].processed =
                  Cardinality({j \in Jobs : jobs[j].status = "completed"
                                            /\ RowsOf(j) # {}})
            /\ counters[r].ignored =
                  Cardinality({j \in Jobs : jobs[j].status = "completed"
                                            /\ RowsOf(j) = {}})
            /\ counters[r].failed =
                  Cardinality({j \in Jobs : jobs[j].status = "failed"})
            /\ CountSum(r) = Cardinality({j \in Jobs : jobs[j].status # "pending"})
            /\ CountSum(r) = Cardinality(selected[r])
C10_Witness ==
    /\ pc["r1"] = "done"
    /\ variant["r1"] = "notify"
    /\ counters["r1"].processed = 1
    /\ counters["r1"].failed = 1

\* C11: the step that ends sendNewAnalysisAlert, with or without an error,
\* writes no job row and no result row, leaves jobsProcessed and jobsFailed
\* as they are and returns runForge to its loop; when the alert is called the
\* job is completed, has its row and is counted as processed.
C11_NotifyStep ==
    \A r \in Runners :
        pc[r] = "notify" /\ Stepped(r) =>
            /\ jobs' = jobs
            /\ results' = results
            /\ counters'[r].processed = counters[r].processed
            /\ counters'[r].failed = counters[r].failed
            /\ counters'[r].ignored = counters[r].ignored
            /\ counters'[r].emailsSent \in
                  {counters[r].emailsSent, counters[r].emailsSent + 1}
            /\ pc'[r] = "loop"
C11_NotifyState ==
    \A r \in Runners :
        pc[r] = "notify" =>
            /\ variant[r] = "notify"
            /\ jobs[item[r]].status = "completed"
            /\ RowsOf(item[r]) # {}
            /\ counters[r].processed >= 1
\* C11: an error of the alert changes neither the job, nor its row, nor the
\* processed and failed counters, and the loop goes on.
C11_NotificationIsolated == []C11_NotifyState /\ [][C11_NotifyStep]_vars
\* the alert of the first job failed, and the second job is in the pipeline
C11_Witness ==
    \E j \in Jobs :
        /\ jobs[j].status = "completed"
        /\ RowsOf(j) # {}
        /\ notified[j] = 1
        /\ counters["r1"] = [processed |-> 1, ignored |-> 0, failed |-> 0,
                             emailsSent |-> 0]
        /\ item["r1"] \in Jobs \ {j}
        /\ pc["r1"] = "scrape"

\* C12: in the notifying runForge sendNewAnalysisAlert has been called once
\* for every row of analysis_results, except for the row of the job that is
\* between its insert and its alert; a job for which it was called is
\* completed; the other runners never call it; emailsSent counts the calls
\* that returned, and is at most jobsProcessed.
C12_AlertsState ==
    \A r \in Runners :
        pc[r] # "off" =>
            /\ \A j \in Jobs :
                  /\ notified[j] =
                        IF variant[r] # "notify" THEN 0
                        ELSE IF item[r] = j /\ pc[r] \in {"complete", "notify"}
                        THEN 0
                        ELSE Cardinality(RowsOf(j))
                  /\ notified[j] <= 1
                  /\ notified[j] > 0 => jobs[j].status = "completed"
            /\ counters[r].emailsSent <= counters[r].processed
            /\ counters[r].emailsSent <=
                  Cardinality({j \in Jobs : notified[j] > 0})
C12_AlertStep ==
    notified' # notified =>
        \E r \in Runners :
            /\ pc[r] = "notify"
            /\ jobs[item[r]].status = "completed"
            /\ notified' = [notified EXCEPT ![item[r]] = @ + 1]
            /\ counters'[r].emailsSent # counters[r].emailsSent =>
                  counters'[r].emailsSent = counters[r].emailsSent + 1
\* C12: one alert per accepted job, after completed, none for ignored or
\* failed jobs, and emailsSent <= processed.
C12_OneAlertPerAcceptedJob == []C12_AlertsState /\ [][C12_AlertStep]_vars
\* one job accepted and alerted, the other one ignored and not alerted
C12_Witness ==
    /\ pc["r1"] = "done"
    /\ counters["r1"] = [processed |-> 1, ignored |-> 1, failed |-> 0,
                         emailsSent |-> 1]
    /\ \E j, k \in Jobs :
          /\ notified[j] = 1 /\ RowsOf(j) # {}
          /\ notified[k] = 0 /\ jobs[k].status = "completed"

\* 2^n
RECURSIVE Pow2(_)
Pow2(n) == IF n = 0 THEN 1 ELSE 2 * Pow2(n - 1)
\* the wrapper has settled
BkSettled == bk.st \in {"returned", "raised"}

\* C13: for a function that fails n times and then succeeds, with n not
\* above the retry count, exponentialBackoff does not raise; when it has
\* returned, it returns the value of fn, has called fn n + 1 times and has
\* waited 1000 * (2^n - 1) ms; it stops only when it has settled.
C13_EventualSuccess ==
    /\ bk.st = "raised" => fn.fails > fn.retries
    /\ bk.st = "returned" =>
          /\ fn.fails <= fn.retries
          /\ bk.out = Value
          /\ bk.calls = fn.fails + 1
          /\ bk.waited = DEFAULT_DELAY * (Pow2(fn.fails) - 1)
    /\ ~BkSettled => ENABLED NextBackoff
\* four failures, then the value, with the default retry count
C13_Witness ==
    /\ fn.fails = 4
    /\ fn.retries = DEFAULT_RETRIES
    /\ bk.st = "returned"
    /\ bk.calls = 5
    /\ bk.waited = 15000

\* C14: for a function that fails on every call the wrapper makes,
\* exponentialBackoff never returns; it calls fn at most retries + 1 times,
\* and when fn has failed that often it raises the error of that last call,
\* having waited 1000 * (2^retries - 1) ms: 31000 ms after 6 calls with the
\* default of 5 retries.
C14_Exhaustion ==
    /\ bk.calls <= fn.retries + 1
    /\ fn.fails > fn.retries =>
          /\ bk.st # "returned"
          /\ bk.st = "raised" =>
                /\ bk.calls = fn.retries + 1
                /\ bk.out = ErrorOf(fn.message, fn.retries + 1)
                /\ bk.waited = DEFAULT_DELAY * (Pow2(fn.retries) - 1)
                /\ fn.retries = DEFAULT_RETRIES =>
                      bk.calls = 6 /\ bk.waited = 31000
          /\ bk.st = "calling" /\ bk.calls = fn.retries + 1 =>
                ENABLED BkFnThrows
\* the default policy, exhausted
C14_Witness ==
    /\ fn.fails > DEFAULT_RETRIES
    /\ fn.retries = DEFAULT_RETRIES
    /\ bk.st = "raised"
    /\ bk.calls = 6
    /\ bk.waited = 1000 + 2000 + 4000 + 8000 + 16000

\* C15: when fn fails with an error of the bad-request kind, the stricter
\* wrapper neither waits nor calls fn again: it raises that error after the
\* one call.
C15_BadRequestNotRetried ==
    fn.strict /\ fn.message = BadRequest /\ fn.fails > 0 =>
        /\ bk.st # "waiting"
        /\ bk.calls = 1
        /\ bk.waited = 0
        /\ bk.st # "returned"

\* the model text parses once the runner has stripped its fence
Strippable(v, t) ==
    /\ t.body # Broken
    /\ \/ t.fence \in {"none", "json_nl"}
       \/ t.fence = "json_sp" /\ v = "notify"
\* the repair call invocation r is suspended on, when it has returned
RepairReply(r) ==
    {c.w.out.text : c \in {AwaitedCalls(r)[i] : i \in
        {k \in DOMAIN AwaitedCalls(r) : AwaitedCalls(r)[k].w.st = "returned"}}}

\* C16: every model call issued for a job has been handed to
\* exponentialBackoff, and a call is given up with an error only after the
\* six attempts of the default policy.
C16_EveryCallWrapped ==
    \A r \in Runners : \A i \in DOMAIN calls[r] :
        /\ calls[r][i].wrapped
        /\ calls[r][i].w.st = "raised" =>
              calls[r][i].w.calls = DEFAULT_RETRIES + 1
\* what holds of the scout calls and of the synthesis call
C16_ScoutAndGeneralWrapped ==
    \A r \in Runners : \A i \in DOMAIN calls[r] :
        calls[r][i].stage # "repair" =>
            /\ calls[r][i].wrapped
            /\ calls[r][i].w.st = "raised" =>
                  calls[r][i].w.calls = DEFAULT_RETRIES + 1

\* C17: when the repair call returns a text that parses, the parsed object
\* is the verdict the filter block judges (a JSON null fails the job with
\* the TypeError of the filter block); the job does not fail with the parse
\* error of the first text; a row is only ever built from that verdict.
C17_RepairStep ==
    \A r \in Runners :
        pc[r] = "repairJoin" /\ Stepped(r) =>
            \A t \in RepairReply(r) :
                Strippable(variant[r], t) =>
                    /\ err'[r] \notin {SyntaxError, FixFailed, ModelError}
                    /\ IF t.body = JsonNull
                       THEN pc'[r] = "catch" /\ err'[r] = TypeError
                       ELSE /\ pc'[r] \in {"ignore", "insert"}
                            /\ analysisJson'[r] = t.body
C17_RowFromVerdict ==
    \A r \in Runners :
        pc[r] = "insert" /\ Stepped(r) =>
            /\ Len(results') = Len(results) + 1
            /\ results'[Len(results')].confidence_score =
                  analysisJson[r].confidence_score_percent
C17_RepairedVerdictUsed ==
    [][C17_RepairStep]_vars /\ [][C17_RowFromVerdict]_vars
\* a job whose repaired verdict was accepted and stored
C17_Witness ==
    \E j \in Jobs :
        /\ <<j, "parses">> \in repairs["r1"]
        /\ jobs[j].status = "completed"
        /\ \E i \in RowsOf(j) : results[i].confidence_score = 85

\* C18: when the repair call returns a text that does not parse either, the
\* runner goes to its catch block with the parse error, in every variant;
\* the job is failed when the runner has left it, has no row and no alert.
C18_RepairStep ==
    \A r \in Runners :
        pc[r] = "repairJoin" /\ Stepped(r) =>
            \A t \in RepairReply(r) :
                ~Strippable(variant[r], t) =>
                    /\ pc'[r] = "catch"
                    /\ err'[r] \in {SyntaxError, FixFailed}
C18_State ==
    \A r \in Runners : \A j \in Jobs :
        <<j, "broken">> \in repairs[r] =>
            /\ RowsOf(j) = {}
            /\ notified[j] = 0
            /\ IF item[r] = j
               THEN pc[r] = "catch" /\ jobs[j].status = "processing"
               ELSE /\ jobs[j].status = "failed"
                    /\ jobs[j].pdf_storage_path \in {SyntaxError, FixFailed}
\* C18: a second text that does not parse fails the job, without row or
\* alert.
C18_UnrecoverableFails == []C18_State /\ [][C18_RepairStep]_vars
\* in each of the three runners
C18_Witness ==
    \E j \in Jobs :
        /\ <<j, "broken">> \in repairs["r1"]
        /\ jobs[j].status = "failed"
        /\ variant["r1"] = "notify"
        /\ jobs[j].pdf_storage_path = FixFailed
C18_WitnessBatch ==
    \E j \in Jobs :
        /\ <<j, "broken">> \in repairs["r1"]
        /\ jobs[j].status = "failed"
        /\ variant["r1"] \in {"batch", "handler"}
        /\ jobs[j].pdf_storage_path = SyntaxError

\* C19: runScoutAnalysis is left, with the reports or with an error, only
\* when none of the chunk calls of the job is still calling the model or
\* waiting for a retry; when a chunk call has raised, the stage ends in the
\* catch block of the job.
C19_JoinStep ==
    \A r \in Runners :
        pc[r] = "scoutJoin" /\ Stepped(r) =>
            /\ \A i \in DOMAIN AwaitedCalls(r) : ~InFlight(AwaitedCalls(r)[i])
            /\ (\E i \in DOMAIN AwaitedCalls(r) :
                    AwaitedCalls(r)[i].w.st = "raised") => pc'[r] = "catch"
C19_ScoutJointCompletion == [][C19_JoinStep]_vars
\* what the code keeps: the resolving side, and the failure of the job
C19_JoinWhenResolved ==
    [][\A r \in Runners :
          pc[r] = "scoutJoin" /\ Stepped(r) =>
              /\ pc'[r] = "general" =>
                    \A i \in DOMAIN AwaitedCalls(r) :
                        AwaitedCalls(r)[i].w.st = "returned"
              /\ (\E i \in DOMAIN AwaitedCalls(r) :
                      AwaitedCalls(r)[i].w.st = "raised") => pc'[r] = "catch"]_vars

\* C20: when runForge selects a job, no model call and no backoff wait of
\* a job it selected before is under way.
C20_SelectStep ==
    \A r \in Runners :
        pc[r] = "select" /\ pc'[r] = "mark" =>
            \A i \in DOMAIN calls[r] : ~InFlight(calls[r][i])
C20_StrictlySequential == [][C20_SelectStep]_vars

\* the text of the call and its chunks
SegText == TextOf(seg.input)
SegChunks == [i \in DOMAIN seg.matches |-> ChunkOf(SegText, seg.matches[i])]

\* C23: the chunks of a non-empty text, concatenated in order, are the text;
\* every chunk has between 1 and 10000 characters and only the last one may
\* have fewer than 10000; there are ceil(length / 10000) of them; the empty
\* text has no chunk, so no scout call is made for it.
C23_Segmenter ==
    seg.called =>
        /\ Concat(SegText, seg.matches) = SegText
        /\ \A i \in DOMAIN SegChunks :
              /\ Len(SegChunks[i]) \in 1..CHUNK_SIZE
              /\ i < Len(SegChunks) => Len(SegChunks[i]) = CHUNK_SIZE
        /\ Len(SegChunks) = NumChunks(seg.input.len)
        /\ seg.input.len = 0 => SegChunks = <<>>
C23_Witness ==
    /\ seg.called
    /\ seg.input.len = MaxChunks * CHUNK_SIZE + 1
    /\ CHUNK_SIZE \in seg.input.nl
    /\ Len(seg.matches) = MaxChunks + 1
    /\ Len(SegChunks[MaxChunks + 1]) = 1

\* what the awaited scout calls of invocation r resolved to, in chunk order
SettledReports(r) ==
    [i \in DOMAIN AwaitedCalls(r) |-> AwaitedCalls(r)[i].w.out.text]
AllReturned(r) ==
    \A i \in DOMAIN AwaitedCalls(r) : AwaitedCalls(r)[i].w.st = "returned"

\* C21: what runScoutAnalysis returns holds no report with the marker
\* NO ALPHA - IGNORE and every report without it, in chunk order whatever the
\* order in which the chunk calls completed; when no report survives it
\* returns the empty list and the job goes on to the synthesis stage.
C21_ScoutFiltering ==
    [][\A r \in Runners :
         pc[r] = "scoutJoin" /\ Stepped(r) /\ AllReturned(r) =>
             /\ pc'[r] = "general"
             /\ \A k \in DOMAIN scoutReports'[r] :
                   /\ scoutReports'[r][k] \in DOMAIN SettledReports(r)
                   /\ SettledReports(r)[scoutReports'[r][k]]
                         # "NO ALPHA - IGNORE"
                   /\ \A l \in DOMAIN scoutReports'[r] :
                         k < l => scoutReports'[r][k] < scoutReports'[r][l]
             /\ \A i \in DOMAIN SettledReports(r) :
                   SettledReports(r)[i] # "NO ALPHA - IGNORE" =>
                       \E k \in DOMAIN scoutReports'[r] :
                           scoutReports'[r][k] = i]_vars
C21_Witness ==
    /\ pc["r1"] = "general"
    /\ scoutReports["r1"] = <<2>>

\* invocation r holds the no-signal verdict of the fast path
NoSignal(r) ==
    /\ Has(analysisJson[r], "confidence_score_percent")
    /\ Has(analysisJson[r], "time_horizon_months")
    /\ analysisJson[r].confidence_score_percent = 0
    /\ analysisJson[r].time_horizon_months = 0

\* C22: with no scout report runGeneralAnalysis returns the no-signal verdict
\* (confidence 0, horizon 0) and issues no synthesis and no repair call; the
\* job then ends completed, without a row and without a notification.
C22_FastPath ==
    /\ [][\A r \in Runners :
            pc[r] = "general" /\ Len(scoutReports[r]) = 0 /\ Stepped(r) =>
                /\ calls' = calls
                /\ pc'[r] = "ignore"
                /\ NoSignal(r)']_vars
    /\ [][\A r \in Runners :
            pc[r] = "ignore" /\ NoSignal(r) /\ Stepped(r) =>
                /\ jobs'[item[r]].status = "completed"
                /\ results' = results
                /\ notified' = notified
                /\ calls' = calls
                /\ pc'[r] \in {"loop", "done"}]_vars
C22_Witness ==
    /\ pc["r1"] = "ignore"
    /\ NoSignal("r1")
    /\ calls["r1"] = <<>>
    /\ jobs[item["r1"]].status = "processing"

\* the update of the document reference writes one field of one row
C29_Frame ==
    \A r \in Runners :
        pc[r] = "setpdf" /\ Stepped(r) =>
            /\ \A j \in Jobs :
                  /\ jobs'[j].status = jobs[j].status
                  /\ j # item[r] =>
                        jobs'[j].pdf_storage_path = jobs[j].pdf_storage_path
            /\ jobs'[item[r]].pdf_storage_path = PdfUrl(item[r])
            /\ results' = results
            /\ notified' = notified

\* C29: recording the document reference after the acquisition writes only
\* pdf_storage_path of the claimed job: its status stays processing, and no
\* other job row and no row of analysis_results is touched.
C29_PdfUpdateOnly ==
    /\ [][C29_Frame]_vars
    /\ [](\A r \in Runners :
            pc[r] \in {"setpdf", "scout"} =>
                jobs[item[r]].status = "processing")
C29_Witness ==
    /\ pc["r1"] = "scout"
    /\ jobs[item["r1"]] =
          [status |-> "processing", pdf_storage_path |-> PdfUrl(item["r1"])]
    /\ \E j \in Jobs : j # item["r1"] /\ jobs[j].pdf_storage_path # PdfUrl(j)

\* the order of the stages of one job: from each stage, where the code goes
StageOrder ==
    {<<"mark", "scrape">>,
     <<"scrape", "download">>, <<"download", "setpdf">>, <<"setpdf", "scout">>,
     <<"scout", "scoutJoin">>, <<"scoutJoin", "general">>,
     <<"general", "generalJoin">>, <<"general", "ignore">>,
     <<"generalJoin", "repair">>, <<"generalJoin", "ignore">>,
     <<"generalJoin", "insert">>,
     <<"repair", "repairJoin">>, <<"repairJoin", "ignore">>,
     <<"repairJoin", "insert">>,
     <<"insert", "complete">>, <<"complete", "notify">>}
\* the stages of a job that is being processed
JobStages == {p[1] : p \in StageOrder} \cup {"notify", "catch"}
\* the stages of invocation r's calls that are in flight for its job
StagesInFlight(r) ==
    {calls[r][i].stage : i \in {k \in DOMAIN calls[r] :
                                  calls[r][k].job = item[r] /\ InFlight(calls[r][k])}}

\* a step of invocation r at a stage follows the order, fails the job or
\* ends the iteration
C30_Step ==
    \A r \in Runners :
        pc[r] \in JobStages /\ Stepped(r) =>
            /\ \/ <<pc[r], pc'[r]>> \in StageOrder
               \/ pc'[r] = "catch" /\ pc[r] \notin {"mark", "setpdf", "insert"}
               \/ /\ pc[r] \in {"ignore", "complete", "notify", "catch"}
                  /\ pc'[r] \in {"loop", "done"}
            \* the writes: processing first, the row before completed
            /\ jobs'[item[r]].status # jobs[item[r]].status =>
                  \/ pc[r] = "mark" /\ jobs'[item[r]].status = "processing"
                  \/ pc[r] \in {"ignore", "complete"}
                        /\ jobs'[item[r]].status = "completed"
                  \/ pc[r] = "catch" /\ jobs'[item[r]].status = "failed"
            /\ results' # results => pc[r] = "insert"
            \* a model call is issued at its stage only
            /\ Len(calls'[r]) > Len(calls[r]) =>
                  /\ pc[r] \in {"scout", "general", "repair"}
                  /\ \A i \in DOMAIN calls'[r] :
                        i > Len(calls[r]) =>
                            /\ calls'[r][i].stage = pc[r]
                            /\ calls'[r][i].job = item[r]
                  /\ StagesInFlight(r) = {}

\* what the position of invocation r says about its job
C30_State ==
    \A r \in Runners :
        /\ pc[r] \in {"select", "mark"} => StagesInFlight(r) = {}
        /\ pc[r] \in {"scrape", "download", "setpdf"} =>
              /\ jobs[item[r]].status = "processing"
              /\ StagesInFlight(r) = {}
        /\ pc[r] \in {"scout", "scoutJoin", "general", "generalJoin", "repair",
                      "repairJoin", "ignore", "insert", "complete"} =>
              jobs[item[r]] =
                  [status |-> "processing",
                   pdf_storage_path |-> PdfUrl(item[r])]
        /\ pc[r] = "scoutJoin" => StagesInFlight(r) \subseteq {"scout"}
        /\ pc[r] = "generalJoin" => StagesInFlight(r) \subseteq {"general"}
        /\ pc[r] = "repairJoin" => StagesInFlight(r) \subseteq {"repair"}
        /\ pc[r] \in {"ignore", "insert", "complete"} =>
              /\ analysisJson[r] \notin {NoJson, JsonNull}
              /\ StagesInFlight(r) = {}
        /\ pc[r] = "complete" => RowsOf(item[r]) # {}

\* C30: for one job the processing write comes before any acquisition or
\* model call, the acquisition before every scout call, all scout calls
\* before the synthesis call, the synthesis before a repair call, and the
\* insert before the completed write; a job is completed only after the
\* acquisition, the scout stage and the synthesis stage, in that order.
C30_StageOrdering ==
    /\ [][C30_Step]_vars
    /\ []C30_State
    /\ [](\A j \in Jobs :
            jobs[j].status = "completed" =>
                jobs[j].pdf_storage_path = PdfUrl(j))
C30_Witness ==
    /\ pc["r1"] = "complete"
    /\ <<item["r1"], "parses">> \in repairs["r1"]
    /\ RowsOf(item["r1"]) # {}
    /\ jobs[item["r1"]].pdf_storage_path = PdfUrl(item["r1"])

\* a setting invocation r needs is absent: the store credentials, the model
\* API key or, in the notifying variant, the notification key or recipient
SettingAbsent(r) ==
    \/ "SUPABASE_URL" \notin config[r]
    \/ "SUPABASE_SERVICE_KEY" \notin config[r]
    \/ "GEMINI_API_KEY" \notin config[r]
    \/ /\ variant[r] = "notify"
       /\ \/ "RESEND_API_KEY" \notin config[r]
          \/ "ALERT_EMAIL_ADDRESS" \notin config[r]

\* C26: when a required setting is absent the batch handler answers 500 and
\* does nothing else: no feed ingestion, no job selected or modified, no
\* model call, no notification, and no job counted as failed.
C26_MissingConfigIsFatal ==
    /\ [][\A r \in Runners :
            IsBatch(r) /\ SettingAbsent(r) /\ Stepped(r) =>
                /\ pc[r] = "idle"
                /\ pc'[r] = "done"
                /\ response'[r] = "500"
                /\ UNCHANGED <<jobs, results, notified, calls, ingested,
                               selected, counters>>]_vars
    /\ [](\A r \in Runners :
            IsBatch(r) /\ SettingAbsent(r) =>
                /\ pc[r] \in {"off", "idle", "done"}
                /\ ~ingested[r]
                /\ selected[r] = {}
                /\ counters[r] = ZeroCounters
                /\ response[r] \in {"none", "500"})
C26_Witness ==
    /\ pc["r1"] = "done"
    /\ response["r1"] = "500"
    /\ variant["r1"] = "notify"
    /\ config["r1"] = Settings \ {"ALERT_EMAIL_ADDRESS"}
    /\ \A j \in Jobs : jobs[j].status = "pending"

\* the writes of a claimed job
JobWrites == {"processing", "pdf", "insert", "completed"}

\* C24: a store call that fails while a claimed job is processed (the
\* processing update, the update of the document reference, the insert or
\* the completed update) is fatal to the job: when the invocation has ended
\* the job is failed, it is counted as failed and not as processed or
\* ignored, and no alert was sent for it.
C24_StoreErrorIsFatal ==
    \A f \in faults :
        f[3] \in JobWrites /\ pc[f[1]] = "done" =>
            /\ jobs[f[2]].status = "failed"
            /\ notified[f[2]] = 0
            /\ IsBatch(f[1]) =>
                  /\ counters[f[1]].failed > 0
                  /\ counters[f[1]].processed + counters[f[1]].ignored
                        < Cardinality(selected[f[1]])

\* C25: when the select returns no job (the queue is empty or the store
\* cannot be reached) the step writes no job row, no result row and sends no
\* alert, nothing is counted as failed, and the invocation ends with its
\* normal answer.
C25_NoClaimNoWrite ==
    [][\A r \in Runners :
         pc[r] = "select" /\ Stepped(r) /\ item'[r] = NoItem =>
             /\ jobs' = jobs
             /\ results' = results
             /\ notified' = notified
             /\ counters' = counters
             /\ pc'[r] = "done"
             /\ response'[r] = "200"]_vars
C25_Witness ==
    /\ pc["r1"] = "done"
    /\ <<"r1", NoItem, "select">> \in faults
    /\ \A j \in Jobs : jobs[j] = [status |-> "pending", pdf_storage_path |-> Null]

\* C27: a batch invocation whose settings are present answers 200 with its
\* counts however many of its jobs failed: a failed job never turns the
\* answer into an error and never ends the loop.
C27_AlwaysAnswers200 ==
    /\ [](\A r \in Runners :
            IsBatch(r) =>
                /\ response[r] \in {"none", "200"}
                /\ pc[r] = "done" =>
                      /\ response[r] = "200"
                      /\ counters[r].failed =
                            Cardinality({j \in Jobs : jobs[j].status = "failed"})
                      /\ CountSum(r) = Cardinality(selected[r]))
    /\ [][\A r \in Runners :
            IsBatch(r) /\ pc[r] = "catch" /\ Stepped(r) =>
                pc'[r] = "loop" /\ response'[r] = "none"]_vars
C27_Witness ==
    /\ pc["r1"] = "done"
    /\ IsBatch("r1")
    /\ response["r1"] = "200"
    /\ counters["r1"].failed = NumJobsSeq
    /\ \A j \in Jobs : jobs[j].status = "failed"

\* C28: when the select of a batch invocation cannot read the store, the
\* invocation answers with a 5xx error.
C28_StoreDownIs5xx ==
    \A r \in Runners :
        IsBatch(r) /\ pc[r] = "done" /\ <<r, NoItem, "select">> \in faults =>
            response[r] = "500"

\* the repair calls invocation r has issued for job j: those it still holds
\* and the one whose outcome it has consumed
RepairCalls(r, j) ==
    Cardinality({i \in DOMAIN calls[r] :
                    calls[r][i].stage = "repair" /\ calls[r][i].job = j})
    + (IF \E o \in {"parses", "broken", "threw"} : <<j, o>> \in repairs[r]
       THEN 1 ELSE 0)
\* the synthesis text invocation r is about to receive, fence stripped
SynthesisReply(r) ==
    {StripFence(AwaitedCalls(r)[i].w.out.text) :
        i \in {k \in DOMAIN AwaitedCalls(r) :
                 AwaitedCalls(r)[k].w.st = "returned"}}

C31_Step ==
    \A r \in Runners :
        \* the synthesis text parses: it is what the runner parses, and no
        \* repair is entered
        /\ pc[r] = "generalJoin" /\ Stepped(r) =>
              \A t \in SynthesisReply(r) :
                  IF Parses(t)
                  THEN /\ pc'[r] \in {"ignore", "insert", "catch"}
                       /\ pc'[r] # "catch" => analysisJson'[r] = JSONparse(t)
                       /\ RepairCalls(r, item[r])' = 0
                  ELSE pc'[r] = "repair"
        \* the repair is entered from the failed parse only
        /\ pc'[r] = "repair" /\ Stepped(r) =>
              /\ pc[r] = "generalJoin"
              /\ \E t \in SynthesisReply(r) : ~Parses(t)
        \* the repair call is issued once, from there
        /\ RepairCalls(r, item[r])' > RepairCalls(r, item[r]) =>
              /\ pc[r] = "repair"
              /\ RepairCalls(r, item[r]) = 0
        /\ pc[r] = "repairJoin" /\ Stepped(r) =>
              pc'[r] \in {"ignore", "insert", "catch"}

\* C31: per job at most one repair call is issued, and only after the
\* synthesis text failed to parse; a synthesis text that parses is returned
\* as it is and no repair call is made.
C31_OneRepairAfterParseFailure ==
    /\ [][C31_Step]_vars
    /\ [](\A r \in Runners : \A j \in Jobs : RepairCalls(r, j) <= 1)
C31_Witness ==
    /\ pc["r1"] = "repairJoin"
    /\ RepairCalls("r1", item["r1"]) = 1
    /\ \E i \in DOMAIN calls["r1"] :
          /\ calls["r1"][i].stage = "repair"
          /\ calls["r1"][i].w.st = "calling"

\* the repair call invocation r is suspended on has raised
RepairRaised(r) ==
    \E i \in DOMAIN AwaitedCalls(r) : AwaitedCalls(r)[i].w.st = "raised"

C32_Step ==
    \A r \in Runners :
        variant[r] = "notify" =>
            \* fixBrokenJson returns "{}" and the filter rejects it
            /\ pc[r] = "repairJoin" /\ RepairRaised(r) /\ Stepped(r) =>
                  /\ pc'[r] = "ignore"
                  /\ analysisJson'[r] = MkObject(<<>>, <<>>)
                  /\ counters'[r] = counters[r]
                  /\ jobs' = jobs
            \* the rejection path commits the job
            /\ /\ pc[r] = "ignore"
               /\ <<item[r], "threw">> \in repairs[r]
               /\ Stepped(r)
               => /\ jobs'[item[r]].status = "completed"
                  /\ results' = results
                  /\ notified' = notified
                  /\ counters'[r] = [counters[r] EXCEPT !.ignored = @ + 1]

\* C32: in the notifying variant a repair call that raises is swallowed by
\* fixBrokenJson, which returns "{}"; the job is then completed through the
\* rejection path of the filter, without a row, counted as ignored and not
\* as failed.
C32_RepairErrorSwallowed ==
    /\ [][C32_Step]_vars
    /\ [](\A r \in Runners : \A j \in Jobs :
            variant[r] = "notify" /\ <<j, "threw">> \in repairs[r] =>
                /\ jobs[j].status \in {"processing", "completed"}
                /\ RowsOf(j) = {}
                /\ item[r] = j => pc[r] = "ignore")
C32_Witness ==
    /\ variant["r1"] = "notify"
    /\ \E j \in Jobs :
          /\ <<j, "threw">> \in repairs["r1"]
          /\ jobs[j].status = "completed"
          /\ RowsOf(j) = {}
          /\ item["r1"] # j
    /\ counters["r1"].ignored = 1
    /\ counters["r1"].failed = 0

\* C33: when an invocation has returned, no job it selected is left in
\* processing: each of them is completed or failed.
C33_NoJobStranded ==
    \A r \in Runners :
        pc[r] = "done" =>
            \A j \in selected[r] : jobs[j].status # "processing"

C34_Step ==
    \A r \in Runners :
        \* an iteration ends the loop or takes its job out of pending
        /\ pc[r] = "select" /\ Stepped(r) =>
              \/ pc'[r] = "done" /\ Selectable(r) = {}
              \/ pc'[r] = "mark" /\ item'[r] \in PendingJobs
        /\ pc[r] = "mark" /\ Stepped(r) => jobs'[item[r]].status # "pending"
        \* the loop condition fails once the budget has elapsed
        /\ pc[r] = "loop" /\ ~BudgetLeft(r) /\ Stepped(r) => pc'[r] = "done"
        \* no job comes back to pending
        /\ \A j \in Jobs :
              jobs[j].status # "pending" => jobs'[j].status # "pending"

\* C34: when every external call returns or raises and no job is inserted
\* during the run, runForge returns: every iteration ends the loop (empty
\* queue) or takes one job out of pending for good, and the loop condition
\* fails once the budget has elapsed.
C34_LoopTerminates ==
    /\ [][C34_Step]_vars
    /\ \A r \in {"r1"} : <>(pc[r] = "done")
C34_Witness ==
    /\ pc["r1"] = "done"
    /\ IsBatch("r1")
    /\ ~BudgetLeft("r1")
    /\ counters["r1"].processed + counters["r1"].ignored
          + counters["r1"].failed = 1
    /\ \E j \in Jobs : jobs[j].status = "pending"

\* the rows run r inserted
InsertedBy(r) ==
    {i \in DOMAIN legislations.rows : legislations.rows[i].by = r}

\* C35: Sentinel inserts an item only when no row has its link; every row
\* it inserts is pending with a null document reference; newEntries is the
\* number of rows the run inserted; and whatever runs of Sentinel took
\* place, overlapping ones included, no two rows share a link.
C35_Deduplication ==
    /\ \A i \in DOMAIN legislations.rows :
          /\ legislations.rows[i].status = "pending"
          /\ legislations.rows[i].pdf_storage_path = Null
    /\ \A r \in Runners : sentinel[r].newEntries = Cardinality(InsertedBy(r))
    /\ \A i, j \in DOMAIN legislations.rows :
          i # j => legislations.rows[i].link # legislations.rows[j].link

====
